---------------------------- MODULE Spec2Model ----------------------------
(***************************************************************************)
(* A model of the Kafka-subset broker: the wire codec (app/parser), the    *)
(* request handlers (app/handlers), the partition store (app/partition)    *)
(* and the per-connection request loop (app/server).                       *)
(*                                                                         *)
(* Bytes are the integers 0..255, byte slices and Go strings are sequences *)
(* of bytes (Go's string([]byte) copies the bytes unchanged), a Go offset  *)
(* o into a slice b is the element b[o+1].                                 *)
(***************************************************************************)
EXTENDS Integers, Sequences, FiniteSets, TLC

VARIABLES
    Topics,      \* BrokerState.Topics: topic name -> Meta (ID, Partitions)
    files,       \* the partition store: log path -> file contents
    unwritable,  \* log paths whose directory or file cannot be written
    rx,          \* per connection: every byte the client has sent so far
    eof,         \* per connection: the client has closed its sending side
    pos,         \* per connection: number of bytes of rx the broker consumed
    status,      \* per connection: "open", or why HandleConnection returned
    out,         \* per connection: the responses written to the socket
    sent,        \* per connection: the requests (script entries) sent so far
    crashed,     \* a goroutine panicked: the broker process is gone
    call,        \* a function called on its own: its name and its arguments
    ret          \* what that call returned, "none" before it returns

vars ==
    <<Topics, files, unwritable, rx, eof, pos, status, out, sent, crashed,
      call, ret>>

-----------------------------------------------------------------------------
(* app/errors/custom.go, app/handlers/fetchtopic.go: constants *)

ErrNone == 0
ErrUnknownTopicOrPartition == 3
ErrUnsupportedVersion == 35
ErrUnknownTopicID == 100

APIKeyProduce == 0
APIKeyFetch == 1
APIKeyApiVersions == 18
APIKeyDescribeTopicParts == 75

maxFrameSize == 16777216

-----------------------------------------------------------------------------
(* app/parser/elements.go: the codec *)

RECURSIVE BigEndian(_, _)
\* binary.BigEndian.PutUintN(tmp, uintN(v)): the n low-order bytes of the
\* two's complement of v, most significant first (\div rounds down)
BigEndian(v, n) ==
    IF n = 0 THEN <<>> ELSE Append(BigEndian(v \div 256, n - 1), v % 256)

RECURSIVE SignedBE(_, _, _)
\* intN(binary.BigEndian.UintN(b[off:off+n])): the signed value of n bytes
SignedBE(b, off, n) ==
    IF n = 1
    THEN (IF b[off + 1] >= 128 THEN b[off + 1] - 256 ELSE b[off + 1])
    ELSE SignedBE(b, off, n - 1) * 256 + b[off + n]

CanRead(br, n) == br.Off + n <= Len(br.B)

ReadFixed(br, n) ==
    IF ~CanRead(br, n)
    THEN [v |-> 0, br |-> br]
    ELSE [v |-> SignedBE(br.B, br.Off, n), br |-> [br EXCEPT !.Off = @ + n]]

ReadInt8(br) == ReadFixed(br, 1)
ReadInt16(br) == ReadFixed(br, 2)
ReadInt32(br) == ReadFixed(br, 4)

\* int64 values are kept as their 8 big-endian bytes (the zero value is eight
\* zero bytes): no caller uses the number, only the cursor
ReadInt64(br) ==
    IF ~CanRead(br, 8)
    THEN [v |-> [i \in 1..8 |-> 0], br |-> br]
    ELSE [v |-> SubSeq(br.B, br.Off + 1, br.Off + 8),
          br |-> [br EXCEPT !.Off = @ + 8]]

\* uint32(b) << s, for the shifts the loop of ReadUVarInt uses (0, 7, .. 28)
Shl32(b, s) == IF s < 28 THEN b * (2 ^ s) ELSE (b % 16) * (2 ^ 28)

RECURSIVE ReadUVarIntLoop(_, _, _, _)
ReadUVarIntLoop(br, x, s, i) ==
    IF i = 5 \/ ~CanRead(br, 1)
    THEN [v |-> x, br |-> br]
    ELSE LET b == br.B[br.Off + 1]
             nbr == [br EXCEPT !.Off = @ + 1]
         IN  IF b < 128
             THEN IF i = 4 /\ b > 1
                  THEN [v |-> x, br |-> nbr]
                  ELSE [v |-> x + Shl32(b, s), br |-> nbr]
             ELSE ReadUVarIntLoop(nbr, x + Shl32(b % 128, s), s + 7, i + 1)

ReadUVarInt(br) == ReadUVarIntLoop(br, 0, 0, 0)

\* the 7 low-order bits of a byte, least significant first
Bits7(b) == [k \in 1..7 |-> (b \div (2 ^ (k - 1))) % 2]

\* a uint64 is the sequence of its 64 bits, least significant first: bits
\* shifted beyond bit 63 are lost
Bits64(bits) == [k \in 1..64 |-> IF k <= Len(bits) THEN bits[k] ELSE 0]

\* int64(x>>1) ^ -(int64(x) & 1): the shift is done on the uint64, bit 63 of
\* the shifted value is 0
ZigZagLogical(x) ==
    [k \in 1..64 |-> ((IF k < 64 THEN x[k + 1] ELSE 0) + x[1]) % 2]

\* int64(u)>>1 ^ -(int64(u) & 1): the conversion binds tighter than the
\* shift, which is done on the int64 and copies bit 63
ZigZagArithmetic(u) ==
    [k \in 1..64 |-> ((IF k < 64 THEN u[k + 1] ELSE u[64]) + u[1]) % 2]

Zero64 == [k \in 1..64 |-> 0]

RECURSIVE ReadVarIntLoopEleven(_, _, _)
\* a variant whose loop runs once more
ReadVarIntLoopEleven(br, x, i) ==
    IF i = 11
    THEN [v |-> Zero64, br |-> br]
    ELSE IF ~CanRead(br, 1)
    THEN [v |-> ZigZagLogical(Bits64(x)), br |-> br]
    ELSE LET b == br.B[br.Off + 1]
             nbr == [br EXCEPT !.Off = @ + 1]
         IN  IF b < 128
             THEN [v |-> ZigZagArithmetic(Bits64(x \o Bits7(b))), br |-> nbr]
             ELSE ReadVarIntLoopEleven(nbr, x \o Bits7(b % 128), i + 1)

RECURSIVE ReadVarIntLoop(_, _, _)
\* x holds the 7 * i bits accumulated so far (s = 7 * i)
ReadVarIntLoop(br, x, i) ==
    IF i = 10
    THEN [v |-> Zero64, br |-> br]
    ELSE IF ~CanRead(br, 1)
    THEN [v |-> ZigZagLogical(Bits64(x)), br |-> br]
    ELSE LET b == br.B[br.Off + 1]
             nbr == [br EXCEPT !.Off = @ + 1]
         IN  IF b < 128
             THEN [v |-> ZigZagArithmetic(Bits64(x \o Bits7(b))), br |-> nbr]
             ELSE ReadVarIntLoop(nbr, x \o Bits7(b % 128), i + 1)

\* the int64 returned is kept as its 64 bits, least significant first
ReadVarInt(br) == ReadVarIntLoop(br, <<>>, 0)

RECURSIVE LowBits(_, _)
\* the number held by the n low-order bits
LowBits(v, n) == IF n = 0 THEN 0 ELSE v[1] + 2 * LowBits(Tail(v), n - 1)

\* the magnitude from which an int stands for "beyond every slice length"
FarOff == 1073741824

\* int(v) for an int64 v: the number itself when it lies within
\* -FarOff .. FarOff, and -FarOff or FarOff when it lies beyond (slice
\* lengths and offsets are far below FarOff, so comparing with them and
\* adding them to an offset gives what the 64-bit number gives, as long as
\* the 64-bit sum does not wrap)
IntOf(v) ==
    IF \A k \in 31..64 : v[k] = 0 THEN LowBits(v, 30)
    ELSE IF \A k \in 31..64 : v[k] = 1 THEN LowBits(v, 30) - FarOff
    ELSE IF v[64] = 1 THEN -FarOff
    ELSE FarOff

ReadCompactString(br) ==
    LET r == ReadUVarInt(br)
        l == r.v - 1
    IN  IF l <= 0 \/ ~CanRead(r.br, l)
        THEN [v |-> <<>>, br |-> r.br]
        ELSE [v |-> SubSeq(r.br.B, r.br.Off + 1, r.br.Off + l),
              br |-> [r.br EXCEPT !.Off = @ + l]]

ReadCompactNullableString(br) ==
    LET r == ReadUVarInt(br)
        l == r.v
        n == l - 1
    IN  IF l = 0
        THEN [v |-> <<>>, null |-> TRUE, br |-> r.br]
        ELSE IF n < 0 \/ ~CanRead(r.br, n)
        THEN [v |-> <<>>, null |-> FALSE, br |-> r.br]
        ELSE [v |-> SubSeq(r.br.B, r.br.Off + 1, r.br.Off + n),
              null |-> FALSE,
              br |-> [r.br EXCEPT !.Off = @ + n]]

AppendInt16(b, v) == b \o BigEndian(v, 2)
AppendInt32(b, v) == b \o BigEndian(v, 4)
AppendInt64(b, v) == b \o BigEndian(v, 8)

RECURSIVE AppendUVarInt(_, _)
AppendUVarInt(b, x) ==
    IF x < 128
    THEN Append(b, x)
    ELSE AppendUVarInt(Append(b, (x % 128) + 128), x \div 128)

AppendCompactString(b, s) == AppendUVarInt(b, Len(s) + 1) \o s

NilUUID == [i \in 1..16 |-> 0]

-----------------------------------------------------------------------------
(* app/partition: the partition store *)

\* fmt.Sprintf("/tmp/kraft-combined-logs/%s-%d/00000000000000000000.log", ..)
LogPath(topicName, partition) == <<topicName, partition>>

\* a read that prefers the file of partition 2: what a Fetch that reads
\* partition 0 only excludes
ReadRecordsOtherPartition(fs, topicName, partition) ==
    IF LogPath(topicName, 2) \in DOMAIN fs
    THEN fs[LogPath(topicName, 2)]
    ELSE IF LogPath(topicName, partition) \in DOMAIN fs
    THEN fs[LogPath(topicName, partition)]
    ELSE <<>>

\* os.ReadFile: nil when the file cannot be read
ReadRecords(fs, topicName, partition) ==
    IF LogPath(topicName, partition) \in DOMAIN fs
    THEN fs[LogPath(topicName, partition)]
    ELSE <<>>

\* a store that appends to the file instead of replacing it: what the
\* latest-write-only behaviour excludes
WriteRecordsAppend(fs, bad, topicName, partition, records) ==
    IF LogPath(topicName, partition) \in bad
    THEN [err |-> TRUE, files |-> fs]
    ELSE [err |-> FALSE,
          files |-> (LogPath(topicName, partition)
                        :> (ReadRecords(fs, topicName, partition) \o records))
                      @@ fs]

\* a store that leaves the file alone when there is nothing to write: what
\* the overwrite with empty contents excludes
WriteRecordsSkipEmpty(fs, bad, topicName, partition, records) ==
    IF LogPath(topicName, partition) \in bad
    THEN [err |-> TRUE, files |-> fs]
    ELSE [err |-> FALSE,
          files |-> IF records = <<>> THEN fs
                    ELSE (LogPath(topicName, partition) :> records) @@ fs]

\* os.MkdirAll, os.WriteFile: the file holds exactly records afterwards; when
\* the directory or the file cannot be created the error is returned
WriteRecords(fs, bad, topicName, partition, records) ==
    IF LogPath(topicName, partition) \in bad
    THEN [err |-> TRUE, files |-> fs]
    ELSE [err |-> FALSE,
          files |-> (LogPath(topicName, partition) :> records) @@ fs]

-----------------------------------------------------------------------------
(* app/handlers: framing and the fixed responses *)

\* a framing whose length counts its own four bytes: what C3 excludes
frameResponseCountingPrefix(header, body) ==
    AppendInt32(<<>>, 4 + Len(header) + Len(body)) \o header \o body

frameResponse(header, body) ==
    AppendInt32(<<>>, Len(header) + Len(body)) \o header \o body

BuildSimpleError(corrID, errorCode) ==
    frameResponse(AppendInt32(<<>>, corrID), AppendInt16(<<>>, errorCode))

BuildApiVersionsErrorOnly(corrID, errorCode) ==
    BuildSimpleError(corrID, errorCode)

\* an entry with min and max version exchanged: what C14 excludes
ApiVersionsEntrySwapped(b, key, min, max) ==
    AppendUVarInt(AppendInt16(AppendInt16(AppendInt16(b, key), max), min), 0)

ApiVersionsEntry(b, key, min, max) ==
    AppendUVarInt(AppendInt16(AppendInt16(AppendInt16(b, key), min), max), 0)

\* an ApiVersions response with a tagged-field buffer after the correlation
\* id, as the other APIs have it: what C15 excludes
BuildApiVersionsV4BodyHeaderV1(corrID) ==
    LET header == AppendUVarInt(AppendInt32(<<>>, corrID), 0)
        b0 == AppendUVarInt(AppendInt16(<<>>, ErrNone), 5)
        b1 == ApiVersionsEntry(b0, APIKeyProduce, 0, 11)
        b2 == ApiVersionsEntry(b1, APIKeyFetch, 0, 16)
        b3 == ApiVersionsEntry(b2, APIKeyApiVersions, 0, 4)
        b4 == ApiVersionsEntry(b3, APIKeyDescribeTopicParts, 0, 0)
        body == AppendUVarInt(AppendInt32(b4, 0), 0)
    IN  frameResponse(header, body)

BuildApiVersionsV4Body(corrID) ==
    LET header == AppendInt32(<<>>, corrID)
        b0 == AppendUVarInt(AppendInt16(<<>>, ErrNone), 5)
        b1 == ApiVersionsEntry(b0, APIKeyProduce, 0, 11)
        b2 == ApiVersionsEntry(b1, APIKeyFetch, 0, 16)
        b3 == ApiVersionsEntry(b2, APIKeyApiVersions, 0, 4)
        b4 == ApiVersionsEntry(b3, APIKeyDescribeTopicParts, 0, 0)
        body == AppendUVarInt(AppendInt32(b4, 0), 0)
    IN  frameResponse(header, body)

-----------------------------------------------------------------------------
(* app/handlers: Produce v11 *)

RECURSIVE ProducePartitionLoop(_, _, _)
\* for j := 0; j < nPartitions; j++ { ... }
ProducePartitionLoop(br, n, acc) ==
    IF n <= 0
    THEN [parts |-> acc, br |-> br]
    ELSE LET idx == ReadInt32(br)
             rl == ReadUVarInt(idx.br)
             recordsLen == rl.v - 1
             take == recordsLen > 0 /\ CanRead(rl.br, recordsLen)
             recs == IF take
                     THEN SubSeq(rl.br.B, rl.br.Off + 1, rl.br.Off + recordsLen)
                     ELSE <<>>
             br2 == IF take THEN [rl.br EXCEPT !.Off = @ + recordsLen] ELSE rl.br
             tg == ReadUVarInt(br2)
         IN  ProducePartitionLoop(tg.br, n - 1,
                 Append(acc, [Index |-> idx.v, Records |-> recs]))

\* make([]ProducePartitionRequest, 0, nPartitions) panics (makeslice: cap
\* out of range) when nPartitions is negative
MakePartitionsPanics(nPartitions) == nPartitions < 0

RECURSIVE ProduceTopicLoop(_, _, _)
\* for i := 0; i < nTopics; i++ { ... }
ProduceTopicLoop(br, n, acc) ==
    IF n <= 0
    THEN [panic |-> FALSE, topics |-> acc, br |-> br]
    ELSE LET nm == ReadCompactString(br)
             np == ReadUVarInt(nm.br)
             nPartitions == np.v - 1
         IN  IF MakePartitionsPanics(nPartitions)
             THEN [panic |-> TRUE, topics |-> acc, br |-> np.br]
             ELSE LET pl == ProducePartitionLoop(np.br, nPartitions, <<>>)
                      tg == ReadUVarInt(pl.br)
                  IN  ProduceTopicLoop(tg.br, n - 1,
                          Append(acc, [Name |-> nm.v, Partitions |-> pl.parts]))

\* a variant that reads acks right after transactional_id
parseProduceRequestV11NoVarInt(reqBody) ==
    LET br == [B |-> reqBody, Off |-> 0]
        r1 == ReadCompactNullableString(br)
        r3 == ReadInt16(r1.br)
        r4 == ReadInt32(r3.br)
        r5 == ReadUVarInt(r4.br)
        nTopics == r5.v - 1
    IN  IF nTopics < 0
        THEN [panic |-> FALSE, topics |-> <<>>, br |-> r5.br]
        ELSE ProduceTopicLoop(r5.br, nTopics, <<>>)

parseProduceRequestV11(reqBody) ==
    LET br == [B |-> reqBody, Off |-> 0]
        r1 == ReadCompactNullableString(br)
        r2 == ReadUVarInt(r1.br)
        r3 == ReadInt16(r2.br)
        r4 == ReadInt32(r3.br)
        r5 == ReadUVarInt(r4.br)
        nTopics == r5.v - 1
    IN  IF nTopics < 0
        THEN [panic |-> FALSE, topics |-> <<>>, br |-> r5.br]
        ELSE ProduceTopicLoop(r5.br, nTopics, <<>>)

\* a range check that lets partition_index = partition count through: what
\* C10 excludes
ProducePartitionResponseOffByOne(acc, bad, name, topicExists, topicMeta, partReq) ==
    LET numPartitions == IF topicExists
                         THEN (IF topicMeta.Partitions = 0 THEN 1
                               ELSE topicMeta.Partitions)
                         ELSE 0
        attempt == topicExists /\ partReq.Index >= 0
                       /\ partReq.Index <= numPartitions
        w == IF attempt
             THEN WriteRecords(acc.files, bad, name, partReq.Index, partReq.Records)
             ELSE [err |-> TRUE, files |-> acc.files]
        ok == attempt /\ ~w.err
        errorCode == IF ok THEN ErrNone ELSE ErrUnknownTopicOrPartition
        baseOffset == IF ok THEN 0 ELSE -1
        logAppendTime == -1
        logStartOffset == IF ok THEN 0 ELSE -1
        b1 == AppendInt32(acc.body, partReq.Index)
        b2 == AppendInt16(b1, errorCode)
        b3 == AppendInt64(b2, baseOffset)
        b4 == AppendInt64(b3, logAppendTime)
        b5 == AppendInt64(b4, logStartOffset)
        b6 == AppendUVarInt(b5, 1)
        b7 == AppendCompactString(b6, <<>>)
        b8 == AppendUVarInt(b7, 0)
    IN  [body |-> b8, files |-> w.files]

\* one pass of the loop over topicReq.Partitions: acc is (body, files)
ProducePartitionResponse(acc, bad, name, topicExists, topicMeta, partReq) ==
    LET numPartitions == IF topicExists
                         THEN (IF topicMeta.Partitions = 0 THEN 1
                               ELSE topicMeta.Partitions)
                         ELSE 0
        attempt == topicExists /\ partReq.Index >= 0
                       /\ partReq.Index < numPartitions
        w == IF attempt
             THEN WriteRecords(acc.files, bad, name, partReq.Index, partReq.Records)
             ELSE [err |-> TRUE, files |-> acc.files]
        ok == attempt /\ ~w.err
        errorCode == IF ok THEN ErrNone ELSE ErrUnknownTopicOrPartition
        baseOffset == IF ok THEN 0 ELSE -1
        logAppendTime == -1
        logStartOffset == IF ok THEN 0 ELSE -1
        b1 == AppendInt32(acc.body, partReq.Index)
        b2 == AppendInt16(b1, errorCode)
        b3 == AppendInt64(b2, baseOffset)
        b4 == AppendInt64(b3, logAppendTime)
        b5 == AppendInt64(b4, logStartOffset)
        b6 == AppendUVarInt(b5, 1)
        b7 == AppendCompactString(b6, <<>>)
        b8 == AppendUVarInt(b7, 0)
    IN  [body |-> b8, files |-> w.files]

RECURSIVE ProducePartitionResponses(_, _, _, _, _, _, _)
ProducePartitionResponses(acc, bad, name, topicExists, topicMeta, parts, j) ==
    IF j > Len(parts)
    THEN acc
    ELSE ProducePartitionResponses(
             ProducePartitionResponse(acc, bad, name, topicExists, topicMeta,
                                      parts[j]),
             bad, name, topicExists, topicMeta, parts, j + 1)

\* a loop pass that takes every topic for a known one: what the refusal of
\* unknown topics excludes
ProduceTopicResponseAnyTopic(acc, bad, state, topicReq) ==
    LET b1 == AppendCompactString(acc.body, topicReq.Name)
        topicMeta == IF topicReq.Name \in DOMAIN state THEN state[topicReq.Name]
                     ELSE [ID |-> NilUUID, Partitions |-> 0]
        b2 == AppendUVarInt(b1, Len(topicReq.Partitions) + 1)
        r == ProducePartitionResponses([body |-> b2, files |-> acc.files], bad,
                 topicReq.Name, TRUE, topicMeta, topicReq.Partitions, 1)
    IN  [body |-> AppendUVarInt(r.body, 0), files |-> r.files]

\* one pass of the loop over topicRequests
ProduceTopicResponse(acc, bad, state, topicReq) ==
    LET b1 == AppendCompactString(acc.body, topicReq.Name)
        topicExists == topicReq.Name \in DOMAIN state
        topicMeta == IF topicExists THEN state[topicReq.Name]
                     ELSE [ID |-> NilUUID, Partitions |-> 0]
        b2 == AppendUVarInt(b1, Len(topicReq.Partitions) + 1)
        r == ProducePartitionResponses([body |-> b2, files |-> acc.files], bad,
                 topicReq.Name, topicExists, topicMeta, topicReq.Partitions, 1)
    IN  [body |-> AppendUVarInt(r.body, 0), files |-> r.files]

RECURSIVE ProduceTopicResponses(_, _, _, _, _)
ProduceTopicResponses(acc, bad, state, topicRequests, i) ==
    IF i > Len(topicRequests)
    THEN acc
    ELSE ProduceTopicResponses(
             ProduceTopicResponse(acc, bad, state, topicRequests[i]),
             bad, state, topicRequests, i + 1)

\* the result: whether the parser panicked, the framed response and the
\* partition store after the writes
HandleProduceV11(corrID, reqBody, state, fs, bad) ==
    LET rq == parseProduceRequestV11(reqBody)
        header == AppendUVarInt(AppendInt32(<<>>, corrID), 0)
        b0 == AppendUVarInt(<<>>, Len(rq.topics) + 1)
        r == ProduceTopicResponses([body |-> b0, files |-> fs], bad, state,
                                   rq.topics, 1)
        body == AppendUVarInt(AppendInt32(r.body, 0), 0)
    IN  IF rq.panic
        THEN [panic |-> TRUE, resp |-> <<>>, files |-> fs]
        ELSE [panic |-> FALSE, resp |-> frameResponse(header, body),
              files |-> r.files]

-----------------------------------------------------------------------------
(* app/handlers: Fetch v16 *)

RECURSIVE FetchPartitionLoop(_, _)
\* for j := 0; j < nPartitions; j++ { seven reads }
FetchPartitionLoop(br, n) ==
    IF n <= 0
    THEN br
    ELSE LET r1 == ReadInt32(br)
             r2 == ReadInt32(r1.br)
             r3 == ReadInt64(r2.br)
             r4 == ReadInt64(r3.br)
             r5 == ReadInt64(r4.br)
             r6 == ReadInt32(r5.br)
             r7 == ReadUVarInt(r6.br)
         IN  FetchPartitionLoop(r7.br, n - 1)

RECURSIVE FetchTopicLoop(_, _, _)
\* for i := 0; i < nTopics; i++ { if !br.CanRead(16) { break } ... }
FetchTopicLoop(br, n, acc) ==
    IF n <= 0 \/ ~CanRead(br, 16)
    THEN [topicIDs |-> acc, br |-> br]
    ELSE LET topicID == SubSeq(br.B, br.Off + 1, br.Off + 16)
             br1 == [br EXCEPT !.Off = @ + 16]
             np == ReadUVarInt(br1)
             br2 == FetchPartitionLoop(np.br, np.v - 1)
             tg == ReadUVarInt(br2)
         IN  FetchTopicLoop(tg.br, n - 1, Append(acc, topicID))

\* a variant that reads four int32 values before isolation_level
parseFetchRequestV16FourInt32(reqBody) ==
    LET br == [B |-> reqBody, Off |-> 0]
        r1 == ReadCompactString(br)
        r2 == ReadInt32(ReadInt32(r1.br).br)
        r3 == ReadInt32(r2.br)
        r4 == ReadInt32(r3.br)
        r5 == ReadInt8(r4.br)
        r6 == ReadInt32(r5.br)
        r7 == ReadInt32(r6.br)
        r8 == ReadUVarInt(r7.br)
        nTopics == r8.v - 1
    IN  IF nTopics < 0
        THEN [topicIDs |-> <<>>, br |-> r8.br]
        ELSE FetchTopicLoop(r8.br, nTopics, <<>>)

parseFetchRequestV16(reqBody) ==
    LET br == [B |-> reqBody, Off |-> 0]
        r1 == ReadCompactString(br)
        r2 == ReadInt32(r1.br)
        r3 == ReadInt32(r2.br)
        r4 == ReadInt32(r3.br)
        r5 == ReadInt8(r4.br)
        r6 == ReadInt32(r5.br)
        r7 == ReadInt32(r6.br)
        r8 == ReadUVarInt(r7.br)
        nTopics == r8.v - 1
    IN  IF nTopics < 0
        THEN [topicIDs |-> <<>>, br |-> r8.br]
        ELSE FetchTopicLoop(r8.br, nTopics, <<>>)

\* the topic response of a UUID no catalog entry has
FetchUnknownTopic(topicID) ==
    LET b1 == AppendUVarInt(topicID, 2)
        b2 == AppendInt32(b1, 0)
        b3 == AppendInt16(b2, ErrUnknownTopicID)
        b4 == AppendInt64(AppendInt64(AppendInt64(b3, 0), 0), 0)
        b5 == AppendUVarInt(b4, 1)
        b6 == AppendInt32(b5, 0)
        b7 == AppendUVarInt(AppendUVarInt(b6, 1), 0)
    IN  AppendUVarInt(b7, 0)

\* the topic response when the scan of state.Topics stopped at topicName
FetchKnownTopic(topicID, topicName, fs) ==
    LET records == ReadRecords(fs, topicName, 0)
        b1 == AppendUVarInt(topicID, 2)
        b2 == AppendInt32(b1, 0)
        b3 == AppendInt16(b2, ErrNone)
        b4 == AppendInt64(AppendInt64(AppendInt64(b3, 1), 0), 0)
        b5 == AppendUVarInt(b4, 1)
        b6 == AppendInt32(b5, 0)
        b7 == IF Len(records) > 0
              THEN AppendUVarInt(b6, Len(records) + 1) \o records
              ELSE AppendUVarInt(b6, 1)
        b8 == AppendUVarInt(b7, 0)
    IN  AppendUVarInt(b8, 0)

\* for name, meta := range state.Topics { if meta.ID == topicID { .. break } }
\* Go ranges over a map in an unspecified order: the scan can stop at any
\* entry with that ID. The set of the topic responses it can lead to.
FetchTopicResponse(topicID, state, fs) ==
    LET matches == {name \in DOMAIN state : state[name].ID = topicID}
    IN  IF matches = {}
        THEN {FetchUnknownTopic(topicID)}
        ELSE {FetchKnownTopic(topicID, name, fs) : name \in matches}

RECURSIVE FetchTopicResponses(_, _, _, _)
FetchTopicResponses(topicIDs, i, state, fs) ==
    IF i > Len(topicIDs)
    THEN {<<>>}
    ELSE {h \o t : h \in FetchTopicResponse(topicIDs[i], state, fs),
                   t \in FetchTopicResponses(topicIDs, i + 1, state, fs)}

\* the set of responses the handler can return
HandleFetchV16(corrID, reqBody, state, fs) ==
    LET topicIDs == parseFetchRequestV16(reqBody).topicIDs
        header == AppendUVarInt(AppendInt32(<<>>, corrID), 0)
        b1 == AppendInt32(<<>>, 0)
        b2 == AppendInt16(b1, ErrNone)
        b3 == AppendInt32(b2, 0)
        b4 == AppendUVarInt(b3, Len(topicIDs) + 1)
    IN  {frameResponse(header, AppendUVarInt(b4 \o t, 0)) :
            t \in FetchTopicResponses(topicIDs, 1, state, fs)}

-----------------------------------------------------------------------------
(* app/handlers: DescribeTopicPartitions v0 *)

RECURSIVE StrLess(_, _)
\* Go's s < t on strings: bytewise lexicographic order
StrLess(s, t) ==
    IF Len(t) = 0 THEN FALSE
    ELSE IF Len(s) = 0 THEN TRUE
    ELSE IF s[1] # t[1] THEN s[1] < t[1]
    ELSE StrLess(Tail(s), Tail(t))

RECURSIVE InsertSorted(_, _)
InsertSorted(sorted, s) ==
    IF Len(sorted) = 0 THEN <<s>>
    ELSE IF StrLess(s, sorted[1]) THEN <<s>> \o sorted
    ELSE <<sorted[1]>> \o InsertSorted(Tail(sorted), s)

\* the names left in request order: what C12 excludes
SortStringsSkipped(names) == names

RECURSIVE SortStrings(_)
\* sort.Strings: the names in ascending order, duplicates kept
SortStrings(names) ==
    IF Len(names) = 0 THEN <<>>
    ELSE InsertSorted(SortStrings(Tail(names)), names[1])

RECURSIVE DescribeNameLoop(_, _, _)
DescribeNameLoop(br, n, acc) ==
    IF n <= 0
    THEN [names |-> acc, br |-> br]
    ELSE LET nm == ReadCompactString(br)
             tg == ReadUVarInt(nm.br)
         IN  DescribeNameLoop(tg.br, n - 1, Append(acc, nm.v))

parseTopicRequests(reqBody) ==
    LET br == [B |-> reqBody, Off |-> 0]
        r1 == ReadUVarInt(br)
        r2 == ReadUVarInt(r1.br)
        nTopics == r2.v - 1
    IN  IF nTopics < 0
        THEN [names |-> <<>>, br |-> r2.br]
        ELSE DescribeNameLoop(r2.br, nTopics, <<>>)

\* partition indexes counted from 1: what C13 excludes
DescribePartitionFromOne(partIdx) ==
    LET b1 == AppendInt16(<<>>, ErrNone)
        b2 == AppendInt32(b1, partIdx + 1)
        b3 == AppendInt32(b2, 1)
        b4 == AppendInt32(b3, -1)
        b5 == AppendInt32(AppendUVarInt(b4, 2), 1)
        b6 == AppendInt32(AppendUVarInt(b5, 2), 1)
        b7 == AppendUVarInt(AppendUVarInt(AppendUVarInt(b6, 1), 1), 1)
    IN  AppendUVarInt(b7, 0)

\* one pass of the loop over the partitions: the bytes it appends to body
DescribePartition(partIdx) ==
    LET b1 == AppendInt16(<<>>, ErrNone)
        b2 == AppendInt32(b1, partIdx)
        b3 == AppendInt32(b2, 1)
        b4 == AppendInt32(b3, -1)
        b5 == AppendInt32(AppendUVarInt(b4, 2), 1)
        b6 == AppendInt32(AppendUVarInt(b5, 2), 1)
        b7 == AppendUVarInt(AppendUVarInt(AppendUVarInt(b6, 1), 1), 1)
    IN  AppendUVarInt(b7, 0)

RECURSIVE DescribePartitions(_, _, _)
\* for partIdx := 0; partIdx < numPartitions; partIdx++ { ... }
DescribePartitions(body, partIdx, numPartitions) ==
    IF partIdx >= numPartitions
    THEN body
    ELSE DescribePartitions(body \o DescribePartition(partIdx), partIdx + 1,
                            numPartitions)

\* the int32 literal -2147483648
MinInt32 == (-2147483647) - 1

DescribeTopic(body, name, state) ==
    IF name \notin DOMAIN state
    THEN LET b1 == AppendInt16(body, ErrUnknownTopicOrPartition)
             b2 == AppendCompactString(b1, name)
             b3 == Append(b2 \o NilUUID, 0)
             b4 == AppendUVarInt(b3, 1)
             b5 == AppendInt32(b4, MinInt32)
         IN  AppendUVarInt(b5, 0)
    ELSE LET meta == state[name]
             b1 == AppendInt16(body, ErrNone)
             b2 == AppendCompactString(b1, name)
             b3 == Append(b2 \o meta.ID, 0)
             numPartitions == IF meta.Partitions = 0 THEN 1 ELSE meta.Partitions
             b4 == AppendUVarInt(b3, numPartitions + 1)
             b5 == DescribePartitions(b4, 0, numPartitions)
             b6 == AppendInt32(b5, MinInt32)
         IN  AppendUVarInt(b6, 0)

RECURSIVE DescribeTopics(_, _, _, _)
DescribeTopics(body, reqNames, i, state) ==
    IF i > Len(reqNames)
    THEN body
    ELSE DescribeTopics(DescribeTopic(body, reqNames[i], state), reqNames,
                        i + 1, state)

HandleDescribeTopicPartitionsV0(corrID, reqBody, state) ==
    LET reqNames == SortStrings(parseTopicRequests(reqBody).names)
        header == AppendUVarInt(AppendInt32(<<>>, corrID), 0)
        b1 == AppendInt32(<<>>, 0)
        b2 == AppendUVarInt(b1, Len(reqNames) + 1)
        b3 == DescribeTopics(b2, reqNames, 1, state)
        body == AppendUVarInt(Append(b3, 255), 0)
    IN  frameResponse(header, body)

-----------------------------------------------------------------------------
(* app/server: reading a request, routing it *)

server_frameResponse(header, body) ==
    AppendInt32(<<>>, Len(header) + Len(body)) \o header \o body

ReadError(n) ==
    [kind |-> "err", n |-> n, body |-> <<>>, corrID |-> 0, apiKey |-> 0,
     apiVersion |-> 0]

ReadBlocked ==
    [kind |-> "block", n |-> 0, body |-> <<>>, corrID |-> 0, apiKey |-> 0,
     apiVersion |-> 0]

\* a size check that refuses a length of exactly 16 MiB: what C4 excludes
InvalidSizeAtLimit(msgSize) == msgSize <= 0 \/ msgSize >= maxFrameSize

\* the size check of readRequest
InvalidSize(msgSize) == msgSize <= 0 \/ msgSize > maxFrameSize

\* where the request body starts in the payload: after the client id and
\* after tagBufLen bytes when that many remain
HeaderEnd(payload) ==
    LET hbr == [B |-> payload, Off |-> 8]
        r1 == ReadCompactNullableString(hbr)
        r2 == ReadUVarInt(r1.br)
        tagBufLen == r2.v
    IN  IF tagBufLen > 0 /\ CanRead(r2.br, tagBufLen)
        THEN r2.br.Off + tagBufLen
        ELSE r2.br.Off

\* a correlation id read from the start of the payload: what C2 excludes
HeaderCorrIDAtStart(payload) == SignedBE(payload, 0, 4)

\* the correlation id of the request
HeaderCorrID(payload) == SignedBE(payload, 4, 4)

\* buf is what the connection still holds unread, atEOF whether the client
\* closed its side. io.ReadFull returns once it has all the bytes it asked
\* for, fails at the end of the stream, and waits otherwise ("block").
\* n is the number of bytes taken from the stream.
readRequest(buf, atEOF) ==
    IF Len(buf) < 4
    THEN (IF atEOF THEN ReadError(Len(buf)) ELSE ReadBlocked)
    ELSE LET msgSize == SignedBE(buf, 0, 4)
         IN  IF InvalidSize(msgSize)
             THEN ReadError(4)
             ELSE IF Len(buf) - 4 < msgSize
             THEN (IF atEOF THEN ReadError(Len(buf)) ELSE ReadBlocked)
             ELSE LET payload == SubSeq(buf, 5, 4 + msgSize)
                  IN  IF Len(payload) < 8
                      THEN ReadError(4 + msgSize)
                      ELSE IF HeaderEnd(payload) > Len(payload)
                      THEN ReadError(4 + msgSize)
                      ELSE [kind |-> "ok",
                            n |-> 4 + msgSize,
                            body |-> SubSeq(payload, HeaderEnd(payload) + 1,
                                            Len(payload)),
                            corrID |-> HeaderCorrID(payload),
                            apiKey |-> SignedBE(payload, 0, 2),
                            apiVersion |-> SignedBE(payload, 2, 2)]

Answer(resp, fs) == [panic |-> FALSE, resp |-> resp, files |-> fs]

\* a reply with the length field at 0, as the broker once wrote it: what the
\* amended C8 excludes
UnknownApiKeyReplyZeroLength(corrID) ==
    <<0, 0, 0, 0>> \o AppendInt32(<<>>, corrID)

\* the default case of the switch on apiKey
UnknownApiKeyReply(corrID) ==
    server_frameResponse(AppendInt32(<<>>, corrID), <<>>)

\* the switch on apiKey of HandleConnection: the set of outcomes it can have
\* (whether a handler panicked, the response, the partition store afterwards)
Route(rq, state, fs, bad) ==
    IF rq.apiKey = APIKeyProduce
    THEN IF rq.apiVersion # 11
         THEN {Answer(BuildSimpleError(rq.corrID, ErrUnsupportedVersion), fs)}
         ELSE {HandleProduceV11(rq.corrID, rq.body, state, fs, bad)}
    ELSE IF rq.apiKey = APIKeyFetch
    THEN IF rq.apiVersion # 16
         THEN {Answer(BuildSimpleError(rq.corrID, ErrUnsupportedVersion), fs)}
         ELSE {Answer(r, fs) : r \in HandleFetchV16(rq.corrID, rq.body, state, fs)}
    ELSE IF rq.apiKey = APIKeyApiVersions
    THEN IF rq.apiVersion < 0 \/ rq.apiVersion > 4
         THEN {Answer(BuildApiVersionsErrorOnly(rq.corrID, ErrUnsupportedVersion),
                      fs)}
         ELSE {Answer(BuildApiVersionsV4Body(rq.corrID), fs)}
    ELSE IF rq.apiKey = APIKeyDescribeTopicParts
    THEN IF rq.apiVersion # 0
         THEN {Answer(BuildSimpleError(rq.corrID, ErrUnsupportedVersion), fs)}
         ELSE {Answer(HandleDescribeTopicPartitionsV0(rq.corrID, rq.body, state),
                      fs)}
    ELSE {Answer(UnknownApiKeyReply(rq.corrID), fs)}

\* a Produce handler that creates the topics it does not know: what C17
\* excludes
CatalogAfterAutoCreate(state, rq) ==
    IF rq.apiKey = APIKeyProduce /\ rq.apiVersion = 11
    THEN LET ts == parseProduceRequestV11(rq.body).topics
             names == {ts[i].Name : i \in 1..Len(ts)}
         IN  [n \in DOMAIN state \cup names |->
                 IF n \in DOMAIN state THEN state[n]
                 ELSE [ID |-> NilUUID, Partitions |-> 1]]
    ELSE state

\* state.Topics after a request was routed: the handlers receive the
\* *BrokerState and only read its map (no handler assigns to state.Topics)
CatalogAfter(state, rq) == state

Conns == {1, 2}

Unread(c) == SubSeq(rx[c], pos[c] + 1, Len(rx[c]))

\* conn.Write fails only once the peer is gone
WriteOutcomes(c) == IF eof[c] THEN {TRUE, FALSE} ELSE {TRUE}

\* One pass of the for loop of HandleConnection on connection c: read a
\* request, route it, write the response. It returns (and closes the
\* connection) when the read or the write fails; a panic in a handler is not
\* recovered and ends the process.
HandleConnection(c) ==
    /\ ~crashed
    /\ status[c] = "open"
    /\ LET rq == readRequest(Unread(c), eof[c])
       IN  /\ rq.kind # "block"
           /\ pos' = [pos EXCEPT ![c] = @ + rq.n]
           /\ Topics' = IF rq.kind = "ok" THEN CatalogAfter(Topics, rq)
                         ELSE Topics
           /\ IF rq.kind = "err"
              THEN /\ status' = [status EXCEPT ![c] = "closed"]
                   /\ UNCHANGED <<files, out, crashed>>
              ELSE \E r \in Route(rq, Topics, files, unwritable) :
                      IF r.panic
                      THEN /\ crashed' = TRUE
                           /\ status' = [status EXCEPT ![c] = "panic"]
                           /\ UNCHANGED <<files, out>>
                      ELSE /\ files' = r.files
                           /\ crashed' = crashed
                           /\ \E wok \in WriteOutcomes(c) :
                                 IF wok
                                 THEN /\ out' = [out EXCEPT ![c] = Append(@, r.resp)]
                                      /\ status' = status
                                 ELSE /\ out' = out
                                      /\ status' = [status EXCEPT ![c] = "write"]
    /\ UNCHANGED <<unwritable, rx, eof, sent, call, ret>>

-----------------------------------------------------------------------------
(* app/topic: loading the catalog. A Go map is a function; a key that is   *)
(* absent reads as the zero value.                                          *)

EmptyMap == [k \in {} |-> 0]

\* m[k] = v on a Go map
MapSet(m, k, v) == [x \in DOMAIN m \cup {k} |-> IF x = k THEN v ELSE m[x]]

ZeroMeta == [ID |-> NilUUID, Partitions |-> 0]

parseTopicRecordValue(data, topicRecords) ==
    IF Len(data) < 20 THEN topicRecords
    ELSE LET r1 == ReadInt8([B |-> data, Off |-> 0])
             r2 == ReadInt8(r1.br)
             r3 == ReadUVarInt(r2.br)
             r4 == ReadUVarInt(r3.br)
             nameLen == r4.v - 1
             br == r4.br
         IN  IF nameLen <= 0 \/ ~CanRead(br, nameLen) THEN topicRecords
             ELSE LET name == SubSeq(br.B, br.Off + 1, br.Off + nameLen)
                      br2 == [br EXCEPT !.Off = @ + nameLen]
                  IN  IF ~CanRead(br2, 16) THEN topicRecords
                      ELSE MapSet(topicRecords, name,
                               [ID |-> SubSeq(br2.B, br2.Off + 1, br2.Off + 16),
                                Partitions |-> 0])

parsePartitionRecordValue(data, partitionCounts) ==
    IF Len(data) < 20 THEN partitionCounts
    ELSE LET r1 == ReadInt8([B |-> data, Off |-> 0])
             r2 == ReadInt8(r1.br)
             r3 == ReadUVarInt(r2.br)
         IN  IF ~CanRead(r3.br, 4) THEN partitionCounts
             ELSE LET br == ReadInt32(r3.br).br
                  IN  IF ~CanRead(br, 16) THEN partitionCounts
                      ELSE LET topicID == SubSeq(br.B, br.Off + 1, br.Off + 16)
                               old == IF topicID \in DOMAIN partitionCounts
                                      THEN partitionCounts[topicID] ELSE 0
                           IN  MapSet(partitionCounts, topicID, old + 1)

\* the value of one record, handed to the parser of its record type
parseRecordValue(valueData, maps) ==
    IF Len(valueData) < 2 THEN maps
    ELSE IF valueData[2] = 2
    THEN [maps EXCEPT !.topicRecords = parseTopicRecordValue(valueData, @)]
    ELSE IF valueData[2] = 3
    THEN [maps EXCEPT
             !.partitionCounts = parsePartitionRecordValue(valueData, @)]
    ELSE maps

\* the value of the record, once its length valueLen was read
RecordValue(rv, maps) ==
    IF IntOf(rv.v) > 0 /\ CanRead(rv.br, IntOf(rv.v))
    THEN parseRecordValue(SubSeq(rv.br.B, rv.br.Off + 1,
                                 rv.br.Off + IntOf(rv.v)), maps)
    ELSE maps

\* the key of the record, skipped once its length keyLen was read
RecordKey(rk, maps) ==
    RecordValue(ReadVarInt(IF IntOf(rk.v) > 0 /\ CanRead(rk.br, IntOf(rk.v))
                           THEN [rk.br EXCEPT !.Off = @ + IntOf(rk.v)]
                           ELSE rk.br),
                maps)

\* attributes, timestampDelta, offsetDelta, then the key and the value
RecordFields(br, maps) ==
    RecordKey(ReadVarInt(ReadVarInt(ReadVarInt(ReadInt8(br).br).br).br), maps)

\* br.Off = recStart + recLen, once the record length recLen was read
\* (rl.br.Off is recStart)
RecordEnd(rl) == rl.br.Off + IntOf(rl.v)

\* if recLen <= 0 || br.Off+recLen > len(data) { break }
RecordLoopBreaks(rl) ==
    IntOf(rl.v) <= 0 \/ rl.br.Off + IntOf(rl.v) > Len(rl.br.B)

RECURSIVE parseRecordsLoop(_, _)
RECURSIVE RecordAt(_, _, _)
\* one record, once its length recLen was read (rl.br.Off is recStart)
RecordAt(br, rl, maps) ==
    IF RecordLoopBreaks(rl) THEN maps
    ELSE parseRecordsLoop([br EXCEPT !.Off = RecordEnd(rl)],
                          RecordFields(rl.br, maps))

\* maps holds topicRecords and partitionCounts, br the cursor over the
\* records of one batch
parseRecordsLoop(br, maps) ==
    IF ~(br.Off < Len(br.B) - 5) THEN maps
    ELSE RecordAt(br, ReadVarInt(br), maps)

parseRecords(data, maps) == parseRecordsLoop([B |-> data, Off |-> 0], maps)

\* the loop of loadClusterMetadata ends at offset
ScanEnds(data, offset) ==
    ~(offset < Len(data) - 20) \/ offset + 12 > Len(data)

\* batchLen is a uint32 read as an int: one with its top bit set (a negative
\* SignedBE) is above the length of every slice
ValidBatchLen(data, offset) ==
    ~(SignedBE(data, offset + 8, 4) = 0 \/ SignedBE(data, offset + 8, 4) < 0
        \/ SignedBE(data, offset + 8, 4) > Len(data) - offset - 12)

\* a variant that ends the scan at the first invalid batch length
ResyncAbort(data, lo, hi) ==
    IF ScanEnds(data, lo) \/ ValidBatchLen(data, lo) THEN lo ELSE hi

RECURSIVE Resync(_, _, _)
\* offset++ as long as the batch length at offset is invalid: the first
\* offset of lo..hi where the loop ends or finds a valid batch length, -1
\* when there is none (the range is halved to keep the evaluation shallow)
Resync(data, lo, hi) ==
    IF lo > hi THEN -1
    ELSE IF lo = hi
    THEN (IF ScanEnds(data, lo) \/ ValidBatchLen(data, lo) THEN lo ELSE -1)
    ELSE IF Resync(data, lo, (lo + hi) \div 2) # -1
    THEN Resync(data, lo, (lo + hi) \div 2)
    ELSE Resync(data, ((lo + hi) \div 2) + 1, hi)

\* a variant that takes the batch length for the length of the whole batch
BatchEndNoHeader(data, offset) == offset + SignedBE(data, offset + 8, 4)

\* batchEnd := offset + 12 + batchLen
BatchEnd(data, offset) == offset + 12 + SignedBE(data, offset + 8, 4)

RECURSIVE BatchAt(_, _, _)
RECURSIVE BatchScan(_, _, _)
\* the batch at offset, whose length is valid
BatchAt(data, offset, maps) ==
    LET batchEnd == BatchEnd(data, offset)
        recordsStart == offset + 61
    IN  IF batchEnd > Len(data) THEN maps
        ELSE IF recordsStart >= batchEnd
        THEN BatchScan(data, batchEnd, maps)
        ELSE BatchScan(data, batchEnd,
                       parseRecords(SubSeq(data, recordsStart + 1, batchEnd),
                                    maps))

\* the scan of loadClusterMetadata over the record batches of the log, from
\* offset on
BatchScan(data, offset, maps) ==
    IF ScanEnds(data, Resync(data, offset, Len(data))) THEN maps
    ELSE BatchAt(data, Resync(data, offset, Len(data)), maps)

\* the merge of the partition counts into the topics found, written into
\* state.Topics
MergeTopics(topicRecords, partitionCounts, topics) ==
    LET merged(name) ==
            LET meta == topicRecords[name]
            IN  IF meta.ID \in DOMAIN partitionCounts
                   /\ partitionCounts[meta.ID] > 0
                THEN [meta EXCEPT !.Partitions = partitionCounts[meta.ID]]
                ELSE IF meta.Partitions = 0
                THEN [meta EXCEPT !.Partitions = 1]
                ELSE meta
    IN  [name \in DOMAIN topics \cup DOMAIN topicRecords |->
            IF name \in DOMAIN topicRecords THEN merged(name)
            ELSE topics[name]]

\* a variant that fails only when the log cannot be read
loadClusterMetadataAnyLog(log, topics) ==
    IF ~log.present THEN [err |-> TRUE, topics |-> topics]
    ELSE LET maps == BatchScan(log.data, 0,
                         [topicRecords |-> EmptyMap,
                          partitionCounts |-> EmptyMap])
         IN  [err |-> FALSE,
              topics |-> MergeTopics(maps.topicRecords, maps.partitionCounts,
                                     topics)]

\* log is what os.ReadFile(logPath) finds: no file, or the file's bytes.
\* Returns the error and state.Topics after the call
loadClusterMetadata(log, topics) ==
    IF ~log.present THEN [err |-> TRUE, topics |-> topics]
    ELSE LET maps == BatchScan(log.data, 0,
                         [topicRecords |-> EmptyMap,
                          partitionCounts |-> EmptyMap])
             after == MergeTopics(maps.topicRecords, maps.partitionCounts,
                                  topics)
         IN  [err |-> DOMAIN after = {}, topics |-> after]

\* text is a sequence of bytes; the texts below are ASCII
RECURSIVE Split(_, _)
\* strings.Split(s, sep) for a one-byte separator
Split(s, sep) ==
    IF \A i \in 1..Len(s) : s[i] # sep THEN <<s>>
    ELSE LET i == CHOOSE i \in 1..Len(s) :
                      s[i] = sep /\ \A j \in 1..(i - 1) : s[j] # sep
         IN  <<SubSeq(s, 1, i - 1)>> \o Split(SubSeq(s, i + 1, Len(s)), sep)

\* the ASCII white space of unicode.IsSpace: \t \n \v \f \r and the space
IsSpace(c) == c \in {9, 10, 11, 12, 13, 32}

TrimSpace(s) ==
    LET kept == {i \in 1..Len(s) : ~IsSpace(s[i])}
    IN  IF kept = {} THEN <<>>
        ELSE SubSeq(s, CHOOSE i \in kept : \A j \in kept : i <= j,
                       CHOOSE i \in kept : \A j \in kept : j <= i)

HasPrefix(s, prefix) ==
    Len(s) >= Len(prefix) /\ SubSeq(s, 1, Len(prefix)) = prefix

\* strings.ReplaceAll(s, "-", "")
RemoveDashes(s) == SelectSeq(s, LAMBDA c : c # 45)

HexDigits == (48..57) \cup (97..102) \cup (65..70)

HexVal(c) == IF c <= 57 THEN c - 48 ELSE IF c >= 97 THEN c - 87 ELSE c - 55

ParseUUID(in) ==
    LET s == RemoveDashes(TrimSpace(in))
    IN  IF Len(s) # 32 THEN [err |-> TRUE, id |-> NilUUID]
        ELSE IF \E i \in 1..32 : s[i] \notin HexDigits
        THEN [err |-> TRUE, id |-> NilUUID]
        ELSE [err |-> FALSE,
              id |-> [i \in 1..16 |->
                         16 * HexVal(s[2 * i - 1]) + HexVal(s[2 * i])]]

RECURSIVE Decimal(_)
Decimal(digits) ==
    IF Len(digits) = 0 THEN 0
    ELSE 10 * Decimal(SubSeq(digits, 1, Len(digits) - 1))
             + (digits[Len(digits)] - 48)

\* the longest digit string whose value is taken: longer ones (beyond
\* int32) do not occur in the files read here
MaxDigits == 9

\* strconv.Atoi: an optional sign, then one or more decimal digits
Atoi(s) ==
    LET signed == Len(s) > 0 /\ s[1] \in {43, 45}
        digits == IF signed THEN Tail(s) ELSE s
    IN  IF Len(digits) = 0 \/ Len(digits) > MaxDigits
             \/ \E i \in 1..Len(digits) : digits[i] \notin 48..57
        THEN [err |-> TRUE, n |-> 0]
        ELSE [err |-> FALSE,
              n |-> IF signed /\ s[1] = 45 THEN -Decimal(digits)
                    ELSE Decimal(digits)]

TopicPrefix == <<116, 111, 112, 105, 99, 46>>
FieldID == <<105, 100>>
FieldPartitions == <<112, 97, 114, 116, 105, 116, 105, 111, 110, 115>>

\* strings.Index and strings.LastIndex for one byte: the Go offset, or -1
IndexByte(s, c) ==
    IF \A i \in 1..Len(s) : s[i] # c THEN -1
    ELSE (CHOOSE i \in 1..Len(s) : s[i] = c /\ \A j \in 1..(i - 1) : s[j] # c)
             - 1

LastIndexByte(s, c) ==
    IF \A i \in 1..Len(s) : s[i] # c THEN -1
    ELSE (CHOOSE i \in 1..Len(s) :
              s[i] = c /\ \A j \in (i + 1)..Len(s) : s[j] # c) - 1

\* the switch on the field name
SetField(meta, field, val) ==
    IF field = FieldID
    THEN (IF ParseUUID(val).err THEN meta
          ELSE [meta EXCEPT !.ID = ParseUUID(val).id])
    ELSE IF field = FieldPartitions
    THEN (IF ~Atoi(val).err /\ Atoi(val).n >= 0
          THEN [meta EXCEPT !.Partitions = Atoi(val).n]
          ELSE meta)
    ELSE meta

\* meta := tmp[name], the switch, tmp[name] = meta
FieldValue(name, field, val, tmp) ==
    MapSet(tmp, name,
           SetField(IF name \in DOMAIN tmp THEN tmp[name] ELSE ZeroMeta,
                    field, val))

\* rest is the key after "topic.": the name, the last dot, the field
RestValue(rest, val, tmp) ==
    IF LastIndexByte(rest, 46) <= 0 \/ LastIndexByte(rest, 46) = Len(rest) - 1
    THEN tmp
    ELSE FieldValue(SubSeq(rest, 1, LastIndexByte(rest, 46)),
                    SubSeq(rest, LastIndexByte(rest, 46) + 2, Len(rest)),
                    val, tmp)

\* a trimmed line: skipped unless it starts with "topic." and holds an "="
TrimmedLine(line, tmp) ==
    IF line = <<>> \/ HasPrefix(line, <<35>>) \/ ~HasPrefix(line, TopicPrefix)
         \/ IndexByte(line, 61) = -1
    THEN tmp
    ELSE RestValue(SubSeq(line, Len(TopicPrefix) + 1, IndexByte(line, 61)),
                   TrimSpace(SubSeq(line, IndexByte(line, 61) + 2, Len(line))),
                   tmp)

\* one line of the properties file, applied to the map tmp
PropertiesLine(rawLine, tmp) == TrimmedLine(TrimSpace(rawLine), tmp)

RECURSIVE PropertiesLines(_, _, _)
PropertiesLines(lines, i, tmp) ==
    IF i > Len(lines) THEN tmp
    ELSE PropertiesLines(lines, i + 1, PropertiesLine(lines[i], tmp))

\* log and props are what os.ReadFile finds at the log path and at path: no
\* readable file, or the file's bytes. Returns the error, state.Topics after
\* the call, and the files read, in order
LoadFromProperties(log, props, topics) ==
    LET meta == loadClusterMetadata(log, topics)
    IN  IF ~meta.err
        THEN [err |-> FALSE, topics |-> meta.topics, read |-> <<"log">>]
        ELSE IF ~props.present
        THEN [err |-> TRUE, topics |-> meta.topics, read |-> <<"log", "props">>]
        ELSE LET tmp == PropertiesLines(Split(props.data, 10), 1, EmptyMap)
             IN  [err |-> FALSE,
                  topics |-> [name \in DOMAIN meta.topics \cup DOMAIN tmp |->
                                 IF name \in DOMAIN tmp THEN tmp[name]
                                 ELSE meta.topics[name]],
                  read |-> <<"log", "props">>]

-----------------------------------------------------------------------------
(* The clients: what they send. Requests are laid out as Kafka clients lay  *)
(* them out: request header v2 (api_key, api_version, correlation_id,       *)
(* client_id as an int16-length string, tagged fields), then the body.     *)

RECURSIVE Flatten(_)
Flatten(ss) == IF Len(ss) = 0 THEN <<>> ELSE ss[1] \o Flatten(Tail(ss))

ClientId == <<107>>

RequestHeader(apiKey, apiVersion, corrID) ==
    BigEndian(apiKey, 2) \o BigEndian(apiVersion, 2) \o BigEndian(corrID, 4)
        \o BigEndian(Len(ClientId), 2) \o ClientId \o <<0>>

EncodeFrame(payload) == BigEndian(Len(payload), 4) \o payload

\* Produce v11: transactional_id (null), acks, timeout_ms, topics, tags
EncodeProducePartition(p) ==
    BigEndian(p.Index, 4) \o <<Len(p.Records) + 1>> \o p.Records \o <<0>>

EncodeProduceTopic(t) ==
    <<Len(t.Name) + 1>> \o t.Name \o <<Len(t.Partitions) + 1>>
        \o Flatten([j \in 1..Len(t.Partitions) |->
                       EncodeProducePartition(t.Partitions[j])])
        \o <<0>>

EncodeProduce(topics) ==
    <<0>> \o BigEndian(-1, 2) \o BigEndian(1000, 4) \o <<Len(topics) + 1>>
        \o Flatten([i \in 1..Len(topics) |-> EncodeProduceTopic(topics[i])])
        \o <<0>>

\* Fetch v16: max_wait_ms, min_bytes, max_bytes, isolation_level, session_id,
\* session_epoch, topics (each with one partition), forgotten topics, rack id
EncodeFetchTopic(id) ==
    id \o <<2>> \o BigEndian(0, 4) \o BigEndian(-1, 4) \o BigEndian(0, 8)
       \o BigEndian(-1, 4) \o BigEndian(-1, 8) \o BigEndian(1048576, 4)
       \o <<0>> \o <<0>>

EncodeFetch(ids) ==
    BigEndian(500, 4) \o BigEndian(1, 4) \o BigEndian(52428800, 4) \o <<0>>
        \o BigEndian(0, 4) \o BigEndian(0, 4) \o <<Len(ids) + 1>>
        \o Flatten([i \in 1..Len(ids) |-> EncodeFetchTopic(ids[i])])
        \o <<1, 1, 0>>

\* DescribeTopicPartitions v0: topics, response_partition_limit, cursor, tags
EncodeDescribe(names) ==
    <<Len(names) + 1>>
        \o Flatten([i \in 1..Len(names) |->
                       <<Len(names[i]) + 1>> \o names[i] \o <<0>>])
        \o BigEndian(100, 4) \o <<255, 0>>

\* ApiVersions: client_software_name, client_software_version, tags
EncodeApiVersions == <<3, 107, 99, 2, 49, 0>>

TopicA == <<97>>
TopicB == <<98>>
TopicC == <<99>>
TopicX == <<120>>

UUID(n) == [i \in 1..16 |-> n]

RecordsB1 == <<170, 187>>
RecordsB2 == <<204>>

Part(i, recs) == [Index |-> i, Records |-> recs]

Req(key, ver, body, arg) ==
    [kind |-> "req", key |-> key, ver |-> ver, body |-> body, arg |-> arg,
     complete |-> TRUE]

Raw(bytes, complete) ==
    [kind |-> "raw", key |-> 0, ver |-> 0, body |-> bytes, arg |-> <<>>,
     complete |-> complete]

ProduceOne == <<[Name |-> TopicA, Partitions |-> <<Part(0, RecordsB1)>>]>>

ProduceMixed ==
    <<[Name |-> TopicX, Partitions |-> <<Part(0, RecordsB1)>>],
      [Name |-> TopicA,
       Partitions |-> <<Part(7, RecordsB1), Part(1, RecordsB2),
                        Part(2, RecordsB1), Part(0, RecordsB2)>>]>>

ProduceDup ==
    <<[Name |-> TopicB, Partitions |-> <<Part(-1, RecordsB2), Part(1, RecordsB1),
                                         Part(0, RecordsB1)>>]>>

\* a Produce body that ends after the topic name
ProduceCut == <<0>> \o BigEndian(-1, 2) \o BigEndian(1000, 4) \o <<2, 2, 97>>

\* a Produce body whose partitions array is null
ProduceNullParts == ProduceCut \o <<0, 0, 0>>

\* the requests a client can send
Script ==
    << Req(APIKeyApiVersions, 4, EncodeApiVersions, <<>>),
       Req(APIKeyApiVersions, 5, EncodeApiVersions, <<>>),
       Req(APIKeyApiVersions, -1, EncodeApiVersions, <<>>),
       Req(2, 0, <<0>>, <<>>),
       Req(APIKeyDescribeTopicParts, 0, EncodeDescribe(<<TopicB, TopicA, TopicX>>),
           <<TopicB, TopicA, TopicX>>),
       Req(APIKeyDescribeTopicParts, 1, EncodeDescribe(<<TopicA>>), <<TopicA>>),
       Req(APIKeyFetch, 16, EncodeFetch(<<UUID(17)>>), <<UUID(17)>>),
       Req(APIKeyFetch, 16, EncodeFetch(<<UUID(34), UUID(51)>>),
           <<UUID(34), UUID(51)>>),
       Req(APIKeyFetch, 15, EncodeFetch(<<UUID(17)>>), <<UUID(17)>>),
       Req(APIKeyProduce, 11, EncodeProduce(ProduceOne), ProduceOne),
       Req(APIKeyProduce, 11, EncodeProduce(ProduceMixed), ProduceMixed),
       Req(APIKeyProduce, 11, EncodeProduce(ProduceDup), ProduceDup),
       Req(APIKeyProduce, 11, ProduceCut, <<>>),
       Req(APIKeyProduce, 11, ProduceNullParts, <<>>),
       Req(APIKeyProduce, 10, EncodeProduce(ProduceOne), ProduceOne),
       Raw(<<0, 0, 0, 0>>, TRUE),
       Raw(<<255, 255, 255, 255>>, TRUE),
       Raw(<<1, 0, 0, 1>> \o RequestHeader(APIKeyApiVersions, 4, 9), TRUE),
       Raw(<<1, 0, 0, 0>> \o RequestHeader(APIKeyApiVersions, 4, 9), FALSE),
       Raw(<<0, 0, 0, 7, 0, 18, 0, 4, 0, 0, 0>>, TRUE),
       Raw(<<0, 0, 0, 12, 0, 18, 0, 4, 0, 0, 0, 9, 0>>, FALSE),
       Raw(<<0, 0>>, FALSE) >>

\* the correlation id of the k-th request on connection c
CorrOf(c, k) == IF c = 1 THEN 16909060 + k ELSE (-2) - 256 * k

FrameOf(t, corrID) ==
    IF Script[t].kind = "raw"
    THEN Script[t].body
    ELSE EncodeFrame(RequestHeader(Script[t].key, Script[t].ver, corrID)
                         \o Script[t].body)

\* no function is called on its own while the broker serves connections
NoCall == [fn |-> "none", arg |-> <<>>]

\* the catalog the broker loaded at startup: b has no partitions line (count
\* 0), b and c carry the same id
Catalog ==
    (TopicA :> [ID |-> UUID(17), Partitions |-> 3])
      @@ (TopicB :> [ID |-> UUID(34), Partitions |-> 0])
      @@ (TopicC :> [ID |-> UUID(34), Partitions |-> 1])

\* the log directory of partition 1 of topic a cannot be written
Unwritable == {LogPath(TopicA, 1)}

MaxSends == 2

TotalSent == Len(sent[1]) + Len(sent[2])

\* the client has sent whole frames only: it is not in the middle of one
ClientAtBoundary(c) == \A k \in 1..Len(sent[c]) : Script[sent[c][k]].complete

ClientSend(c, t) ==
    /\ ~crashed
    /\ status[c] = "open"
    /\ ~eof[c]
    /\ ClientAtBoundary(c)
    /\ TotalSent < MaxSends
    /\ rx' = [rx EXCEPT ![c] = @ \o FrameOf(t, CorrOf(c, Len(sent[c]) + 1))]
    /\ sent' = [sent EXCEPT ![c] = Append(@, t)]
    /\ UNCHANGED <<Topics, files, unwritable, eof, pos, status, out, crashed,
                   call, ret>>

ClientClose(c) ==
    /\ ~crashed
    /\ status[c] = "open"
    /\ ~eof[c]
    /\ eof' = [eof EXCEPT ![c] = TRUE]
    /\ UNCHANGED <<Topics, files, unwritable, rx, pos, status, out, sent, crashed,
                   call, ret>>

Init ==
    /\ Topics = Catalog
    /\ files = [p \in {} |-> <<>>]
    /\ unwritable = Unwritable
    /\ rx = [c \in Conns |-> <<>>]
    /\ eof = [c \in Conns |-> FALSE]
    /\ pos = [c \in Conns |-> 0]
    /\ status = [c \in Conns |-> "open"]
    /\ out = [c \in Conns |-> <<>>]
    /\ sent = [c \in Conns |-> <<>>]
    /\ crashed = FALSE
    /\ call = NoCall
    /\ ret = "none"

Next ==
    \E c \in Conns :
        \/ HandleConnection(c)
        \/ ClientClose(c)
        \/ \E t \in 1..Len(Script) : ClientSend(c, t)

Spec == Init /\ [][Next]_vars

-----------------------------------------------------------------------------
(* What the claims speak of: the frames of a byte stream, the fields of a   *)
(* request and of a response, read off the bytes on the wire.               *)

RECURSIVE RefScan(_, _, _)
\* The well-framed requests at the head of stream s from offset o on: a
\* 4-byte length n with 0 < n <= 16 MiB, then n >= 8 bytes of payload. tail
\* says what follows them: "bad" (a length out of range, a payload shorter
\* than 8 bytes, a frame cut short by the end of the stream), "end" (the
\* stream ended on a frame boundary), "wait" (the rest has not arrived).
RefScan(s, o, atEOF) ==
    IF Len(s) = o
    THEN [frames |-> <<>>, tail |-> IF atEOF THEN "end" ELSE "wait"]
    ELSE IF Len(s) - o < 4
    THEN [frames |-> <<>>, tail |-> IF atEOF THEN "bad" ELSE "wait"]
    ELSE LET n == SignedBE(s, o, 4)
         IN  IF n <= 0 \/ n > 16 * 1048576
             THEN [frames |-> <<>>, tail |-> "bad"]
             ELSE IF Len(s) - o - 4 < n
             THEN [frames |-> <<>>, tail |-> IF atEOF THEN "bad" ELSE "wait"]
             ELSE IF n < 8
             THEN [frames |-> <<>>, tail |-> "bad"]
             ELSE LET rest == RefScan(s, o + 4 + n, atEOF)
                  IN  [frames |-> <<[payload |-> SubSeq(s, o + 5, o + 4 + n),
                                     end |-> o + 4 + n]>> \o rest.frames,
                       tail |-> rest.tail]

Stream(c) == RefScan(rx[c], 0, eof[c])
Frames(c) == Stream(c).frames

\* the number of well-framed requests the broker has read on c
Served(c) == Cardinality({k \in 1..Len(Frames(c)) : Frames(c)[k].end <= pos[c]})

ApiKeyOf(payload) == SignedBE(payload, 0, 2)
ApiVersionOf(payload) == SignedBE(payload, 2, 2)
CorrBytesOf(payload) == SubSeq(payload, 5, 8)

Recognized(key) == key \in {0, 1, 18, 75}

Supported(key, ver) ==
    \/ key = 0 /\ ver = 11
    \/ key = 1 /\ ver = 16
    \/ key = 75 /\ ver = 0
    \/ key = 18 /\ ver \in 0..4

\* the value of the length prefix of a response
LengthField(resp) == SignedBE(resp, 0, 4)

\* the partition responses of a Produce v11 response, from offset o on
RECURSIVE DecodeProduceParts(_, _, _)
DecodeProduceParts(r, o, n) ==
    IF n = 0
    THEN [parts |-> <<>>, o |-> o]
    ELSE LET rest == DecodeProduceParts(r, o + 33, n - 1)
         IN  [parts |-> <<[partition_index |-> SignedBE(r, o, 4),
                           error_code |-> SignedBE(r, o + 4, 2),
                           base_offset |-> SignedBE(r, o + 6, 8),
                           log_append_time |-> SignedBE(r, o + 14, 8),
                           log_start_offset |-> SignedBE(r, o + 22, 8)]>>
                          \o rest.parts,
              o |-> rest.o]

\* the topic responses of a Produce v11 response, from offset o on
RECURSIVE DecodeProduceTopics(_, _, _)
DecodeProduceTopics(r, o, n) ==
    IF n = 0
    THEN <<>>
    ELSE LET l == r[o + 1] - 1
             ps == DecodeProduceParts(r, o + 1 + l + 1, r[o + 1 + l + 1] - 1)
         IN  <<[name |-> SubSeq(r, o + 2, o + 1 + l), parts |-> ps.parts]>>
                 \o DecodeProduceTopics(r, ps.o + 1, n - 1)

\* a Produce v11 response: length, correlation id, tagged fields, topics
DecodeProduce(resp) == DecodeProduceTopics(resp, 10, resp[10] - 1)

\* the topic responses of a Fetch v16 response (one partition each)
RECURSIVE DecodeFetchTopics(_, _, _)
DecodeFetchTopics(r, o, n) ==
    IF n = 0
    THEN <<>>
    ELSE LET l == r[o + 53] - 1
         IN  <<[topic_id |-> SubSeq(r, o + 1, o + 16),
                partitions |-> r[o + 17] - 1,
                partition_index |-> SignedBE(r, o + 17, 4),
                error_code |-> SignedBE(r, o + 21, 2),
                high_watermark |-> SignedBE(r, o + 23, 8),
                last_stable_offset |-> SignedBE(r, o + 31, 8),
                log_start_offset |-> SignedBE(r, o + 39, 8),
                records_prefix |-> r[o + 53],
                records |-> SubSeq(r, o + 54, o + 53 + l)]>>
                 \o DecodeFetchTopics(r, o + 53 + l + 2, n - 1)

\* a Fetch v16 response: length, correlation id, tagged fields,
\* throttle_time_ms, error_code, session_id, topics
DecodeFetch(resp) == DecodeFetchTopics(resp, 20, resp[20] - 1)

\* the request body as the header parser cuts it out of the payload
RequestBodyOf(payload) ==
    SubSeq(payload, HeaderEnd(payload) + 1, Len(payload))

\* the k-th response written on c and the request it stands against
ResponseAt(c, k) == out[c][k]
RequestAt(c, k) == Frames(c)[k].payload

\* the server step on c that wrote the n-th response of c
Wrote(c, n) == Len(out[c]) = n - 1 /\ Len(out'[c]) = n

\* the structured request behind the k-th frame of c, when the client sent
\* whole requests only
Scripted(c, k) ==
    /\ k <= Len(sent[c])
    /\ \A j \in 1..k : Script[sent[c][j]].kind = "req"

ScriptArg(c, k) == Script[sent[c][k]].arg

-----------------------------------------------------------------------------
(* C1 .. C10: connection handling, framing, error replies, Produce, Fetch *)

\* C1 (as the specification states it): on every connection whose writes
\* succeeded, the responses written are exactly the answers to the
\* well-framed requests read so far, one each and in arrival order: as many
\* responses as requests read, the k-th carrying the k-th correlation id.
\* The code breaks it: a Produce v11 request whose parser panics has been
\* read and is never answered.
C1_OneResponsePerRequestInOrder ==
    \A c \in Conns :
        status[c] # "write" =>
            /\ Len(out[c]) = Served(c)
            /\ \A k \in 1..Len(out[c]) :
                   SubSeq(ResponseAt(c, k), 5, 8) = CorrBytesOf(RequestAt(c, k))

\* C2: the 4 bytes after the length prefix of the k-th response are bytes
\* 4..8 of the k-th well-framed request, whatever its api_key and version.
C2_CorrelationIdEchoed ==
    \A c \in Conns : \A k \in 1..Len(out[c]) :
        /\ k <= Len(Frames(c))
        /\ Len(ResponseAt(c, k)) >= 8
        /\ SubSeq(ResponseAt(c, k), 5, 8) = CorrBytesOf(RequestAt(c, k))

\* C2 witness: a connection answered an unrecognized api_key and then a
\* recognized api_key at an unsupported version, with a negative id.
C2_Witness ==
    \E c \in Conns :
        /\ Len(out[c]) = 2
        /\ ~Recognized(ApiKeyOf(RequestAt(c, 1)))
        /\ Recognized(ApiKeyOf(RequestAt(c, 2)))
        /\ ~Supported(ApiKeyOf(RequestAt(c, 2)), ApiVersionOf(RequestAt(c, 2)))
        /\ SignedBE(ResponseAt(c, 2), 4, 4) < 0

\* C3: every response written starts with a 4-byte big-endian length equal
\* to the number of bytes that follow it.
C3_LengthPrefixCountsWhatFollows ==
    \A c \in Conns : \A k \in 1..Len(out[c]) :
        /\ Len(ResponseAt(c, k)) >= 4
        /\ LengthField(ResponseAt(c, k)) = Len(ResponseAt(c, k)) - 4

\* C3 witness: a Produce v11 response (built by the handlers' frameResponse)
\* followed by the reply to an unrecognized api_key (built by the server's).
C3_Witness ==
    \E c \in Conns :
        /\ Len(out[c]) = 2
        /\ ApiKeyOf(RequestAt(c, 1)) = 0 /\ ApiVersionOf(RequestAt(c, 1)) = 11
        /\ Len(ResponseAt(c, 1)) > 40
        /\ ~Recognized(ApiKeyOf(RequestAt(c, 2)))

\* the stream of c holds a framing error right where the broker reads next
AtFramingError(c) ==
    /\ status[c] = "open"
    /\ Stream(c).tail = "bad"
    /\ Served(c) = Len(Frames(c))

\* C4: a frame with a length <= 0 or > 16 MiB, a payload cut short by the
\* end of the stream or a payload shorter than 8 bytes closes the
\* connection: the step that reads it writes nothing and closes, a closed
\* connection never reads or writes again, no response exists beyond the
\* well-framed requests before it; and nothing else closes a connection
\* (a length of exactly 16 MiB does not).
C4_FramingErrorCloses ==
    /\ [](\A c \in Conns :
             /\ Len(out[c]) <= Len(Frames(c))
             /\ status[c] = "closed" =>
                    /\ Stream(c).tail \in {"bad", "end"}
                    /\ Served(c) = Len(Frames(c)))
    /\ [][\A c \in Conns :
             /\ (AtFramingError(c) /\ (pos'[c] # pos[c] \/ status'[c] # status[c]))
                    => /\ status'[c] = "closed"
                       /\ out' = out
                       /\ files' = files
             /\ status[c] = "closed"
                    => /\ status'[c] = "closed"
                       /\ out'[c] = out[c]
                       /\ pos'[c] = pos[c]]_vars

\* C4 witness: a connection answered one request, then met a framing error
\* with a further frame behind it, and is closed with that one response.
C4_Witness ==
    \E c \in Conns :
        /\ status[c] = "closed"
        /\ Stream(c).tail = "bad"
        /\ Len(Frames(c)) = 1
        /\ Len(out[c]) = 1
        /\ ~eof[c]

\* the k-th response of c reports a protocol-level error
ErrorReply(c, k) ==
    LET key == ApiKeyOf(RequestAt(c, k))
        ver == ApiVersionOf(RequestAt(c, k))
    IN  \/ ~Supported(key, ver)
        \/ /\ key = 0 /\ ver = 11
           /\ \E i \in 1..Len(DecodeProduce(ResponseAt(c, k))) :
                 \E j \in 1..Len(DecodeProduce(ResponseAt(c, k))[i].parts) :
                    DecodeProduce(ResponseAt(c, k))[i].parts[j].error_code = 3
        \/ /\ key = 1 /\ ver = 16
           /\ \E i \in 1..Len(DecodeFetch(ResponseAt(c, k))) :
                 DecodeFetch(ResponseAt(c, k))[i].error_code = 100

\* C5 (as the specification states it): after a request answered with an
\* error reply (error_code 35, the reply to an unrecognized api_key,
\* error_code 3 or 100), the connection is still open, and the next
\* well-framed request, once read, is answered unless the write failed.
\* The code breaks it: the next request can be a Produce v11 request whose
\* parser panics; it is read and never answered (see C6).
C5_ErrorReplyKeepsServing ==
    \A c \in Conns : \A k \in 1..Len(out[c]) :
        ErrorReply(c, k) =>
            /\ status[c] # "closed" \/ Stream(c).tail \in {"bad", "end"}
            /\ (k < Len(Frames(c)) /\ Frames(c)[k + 1].end <= pos[c]
                  /\ status[c] # "write")
                   => Len(out[c]) >= k + 1

\* C6 (as the specification states it): on the body of every well-framed
\* request that arrived, the Produce parser does not panic and the Produce,
\* Fetch and DescribeTopicPartitions parsers leave the cursor within the
\* body. The code breaks it: parseProduceRequestV11 panics on a body that
\* ends before the partitions array length or declares it null.
C6_ParsersNeverPanic ==
    \A c \in Conns : \A k \in 1..Len(Frames(c)) :
        LET key == ApiKeyOf(RequestAt(c, k))
            body == RequestBodyOf(RequestAt(c, k))
        IN  /\ key = 0 => /\ ~parseProduceRequestV11(body).panic
                          /\ parseProduceRequestV11(body).br.Off <= Len(body)
            /\ key = 1 => parseFetchRequestV16(body).br.Off <= Len(body)
            /\ key = 75 => parseTopicRequests(body).br.Off <= Len(body)

\* the error-only response under the header of the API: correlation id,
\* an empty tagged-field buffer except for ApiVersions, error_code 35
UnsupportedVersionReply(key, corr) ==
    LET header == IF key = 18 THEN corr ELSE corr \o <<0>>
    IN  BigEndian(Len(header) + 2, 4) \o header \o <<0, 35>>

\* C7 (as the specification states it): a recognized api_key at an
\* unsupported version is answered with error_code 35 alone, under the
\* correlation id for ApiVersions and under the correlation id and an empty
\* tagged-field buffer for Produce, Fetch and DescribeTopicPartitions.
\* The code breaks it: BuildSimpleError writes no tagged-field buffer.
C7_UnsupportedVersionReply ==
    \A c \in Conns : \A k \in 1..Len(out[c]) :
        LET key == ApiKeyOf(RequestAt(c, k))
            ver == ApiVersionOf(RequestAt(c, k))
        IN  (Recognized(key) /\ ~Supported(key, ver)) =>
                ResponseAt(c, k) =
                    UnsupportedVersionReply(key, CorrBytesOf(RequestAt(c, k)))

\* C8 (amended): a request whose api_key is none of 0, 1, 18, 75 is answered
\* with the 8 bytes 00 00 00 04 and the correlation id (the length field is
\* 4, there is no body), and the step that writes it leaves the connection
\* open.
C8_UnknownApiKeyReply ==
    /\ [](\A c \in Conns : \A k \in 1..Len(out[c]) :
             ~Recognized(ApiKeyOf(RequestAt(c, k))) =>
                 ResponseAt(c, k) = <<0, 0, 0, 4>> \o CorrBytesOf(RequestAt(c, k)))
    /\ [][\A c \in Conns :
             (Wrote(c, Len(out[c]) + 1)
                 /\ ~Recognized(ApiKeyOf(RequestAt(c, Len(out[c]) + 1))))
                 => status'[c] = "open"]_vars

\* C8 witness: an unrecognized api_key was answered and the request after
\* it on the same connection was answered too.
C8_Witness ==
    \E c \in Conns :
        /\ Len(out[c]) = 2
        /\ ~Recognized(ApiKeyOf(RequestAt(c, 1)))
        /\ status[c] = "open"

\* C8 (as the specification states it): the length field of the reply to an
\* unrecognized api_key is 0.
C8_ZeroLengthFrame ==
    \A c \in Conns : \A k \in 1..Len(out[c]) :
        ~Recognized(ApiKeyOf(RequestAt(c, k))) =>
            /\ LengthField(ResponseAt(c, k)) = 0
            /\ SubSeq(ResponseAt(c, k), 5, 8) = CorrBytesOf(RequestAt(c, k))

\* C9 (as the specification states it): the store holds a file for
\* partition 0 of a topic exactly when a Produce wrote it successfully; a
\* Fetch v16 answered afterwards, on any connection, for that topic's UUID
\* returns the bytes B of that file with prefix len(B)+1, error_code 0 and
\* high_watermark 1. The code breaks it when two catalog entries carry the
\* same UUID: the scan of the catalog map may stop at the other topic.
C9_FetchReturnsProduced ==
    [][\A c \in Conns :
          (Wrote(c, Len(out[c]) + 1)
              /\ ApiKeyOf(RequestAt(c, Len(out[c]) + 1)) = 1
              /\ ApiVersionOf(RequestAt(c, Len(out[c]) + 1)) = 16)
          => LET es == DecodeFetch(out'[c][Len(out[c]) + 1])
             IN  \A i \in 1..Len(es) : \A t \in DOMAIN Topics :
                    (Topics[t].ID = es[i].topic_id
                        /\ LogPath(t, 0) \in DOMAIN files)
                    => /\ es[i].records = files[LogPath(t, 0)]
                       /\ es[i].records_prefix = Len(files[LogPath(t, 0)]) + 1
                       /\ es[i].error_code = 0
                       /\ es[i].high_watermark = 1]_vars

\* the entries of a Produce request, flattened in request order
ProduceEntries(topics) ==
    Flatten([i \in 1..Len(topics) |->
                [j \in 1..Len(topics[i].Partitions) |->
                    [name |-> topics[i].Name,
                     index |-> topics[i].Partitions[j].Index,
                     records |-> topics[i].Partitions[j].Records]]])

\* the entry is refused: unknown topic, partition index out of range, or a
\* store that cannot be written
Refused(name, index) ==
    \/ name \notin DOMAIN Topics
    \/ index < 0
    \/ index >= (IF Topics[name].Partitions > 1 THEN Topics[name].Partitions
                 ELSE 1)
    \/ LogPath(name, index) \in unwritable

\* what the Produce response must hold for the request topics
ExpectedProduce(topics) ==
    [i \in 1..Len(topics) |->
        [name |-> topics[i].Name,
         parts |->
            [j \in 1..Len(topics[i].Partitions) |->
                LET index == topics[i].Partitions[j].Index
                    no == Refused(topics[i].Name, index)
                IN  [partition_index |-> index,
                     error_code |-> IF no THEN 3 ELSE 0,
                     base_offset |-> IF no THEN -1 ELSE 0,
                     log_append_time |-> -1,
                     log_start_offset |-> IF no THEN -1 ELSE 0]]]]

\* the store after the accepted entries es were written over fs, in order
StoreAfter(fs, es) ==
    LET hit(p) == {i \in 1..Len(es) :
                      /\ LogPath(es[i].name, es[i].index) = p
                      /\ ~Refused(es[i].name, es[i].index)}
        last(p) == CHOOSE i \in hit(p) : \A j \in hit(p) : j <= i
        paths == DOMAIN fs \cup
                    {LogPath(es[i].name, es[i].index) : i \in
                        {i \in 1..Len(es) : ~Refused(es[i].name, es[i].index)}}
    IN  [p \in paths |-> IF hit(p) = {} THEN fs[p] ELSE es[last(p)].records]

\* C10: a Produce v11 response echoes every request topic and partition
\* index in request order; an entry has error_code 3 and offsets -1, -1, -1
\* exactly when its topic is unknown, its index is negative or >=
\* max(partition_count, 1), or its write fails, and error_code 0 with offsets
\* 0, -1, 0 otherwise, whatever the other entries of the request are; the
\* step that answers writes the records of the accepted entries and nothing
\* else.
C10_ProducePerPartition ==
    /\ [](\A c \in Conns : \A k \in 1..Len(out[c]) :
             (ApiKeyOf(RequestAt(c, k)) = 0 /\ ApiVersionOf(RequestAt(c, k)) = 11
                 /\ Scripted(c, k))
             => DecodeProduce(ResponseAt(c, k)) = ExpectedProduce(ScriptArg(c, k)))
    /\ [][\A c \in Conns :
             LET k == Len(out[c]) + 1
             IN  (Wrote(c, k) /\ ApiKeyOf(RequestAt(c, k)) = 0
                     /\ ApiVersionOf(RequestAt(c, k)) = 11 /\ Scripted(c, k))
                 => files' = StoreAfter(files, ProduceEntries(ScriptArg(c, k)))]_vars

\* C10 witness: a Produce v11 request with an unknown topic, an index out of
\* range, a partition that cannot be written and two partitions that can was
\* answered, and the two writes are in the store.
C10_Witness ==
    \E c \in Conns : \E k \in 1..Len(out[c]) :
        /\ ApiKeyOf(RequestAt(c, k)) = 0
        /\ ApiVersionOf(RequestAt(c, k)) = 11
        /\ Scripted(c, k)
        /\ ScriptArg(c, k) = ProduceMixed
        /\ LogPath(TopicA, 0) \in DOMAIN files
        /\ LogPath(TopicA, 2) \in DOMAIN files
        /\ LogPath(TopicA, 1) \notin DOMAIN files

-----------------------------------------------------------------------------
(* C11 .. C20: the handlers' responses, determinism, the catalog, startup,  *)
(* the varint codec                                                          *)

\* the bytes the partition store holds for partition 0 of topic t
StoredFor(t) ==
    IF LogPath(t, 0) \in DOMAIN files THEN files[LogPath(t, 0)] ELSE <<>>

\* the topic response e is the one the specification gives for UUID id
FetchEntryFor(e, id) ==
    /\ e.topic_id = id
    /\ e.partitions = 1
    /\ e.partition_index = 0
    /\ e.last_stable_offset = 0
    /\ e.log_start_offset = 0
    /\ e.records_prefix = Len(e.records) + 1
    /\ IF \A t \in DOMAIN Topics : Topics[t].ID # id
       THEN /\ e.error_code = 100
            /\ e.high_watermark = 0
            /\ e.records = <<>>
       ELSE /\ e.error_code = 0
            /\ e.high_watermark = 1
            /\ \E t \in DOMAIN Topics : Topics[t].ID = id /\ e.records = StoredFor(t)

\* C11 (as the specification states it): the response to a Fetch v16
\* request holds one topic response per requested UUID, in request order,
\* each with one partition entry of index 0 that has error_code 100, zero
\* offsets and no records when no catalog entry has the UUID, and otherwise
\* error_code 0, high_watermark 1 and the stored bytes of partition 0 of a
\* topic with that UUID. The code breaks it on a request with two topics:
\* the parser reads 36 bytes for a partition entry of 32, and the second
\* UUID it answers is not the one requested.
C11_FetchPerRequestedTopic ==
    [][\A c \in Conns :
          LET k == Len(out[c]) + 1
          IN  (Wrote(c, k) /\ ApiKeyOf(RequestAt(c, k)) = 1
                  /\ ApiVersionOf(RequestAt(c, k)) = 16 /\ Scripted(c, k))
              => LET es == DecodeFetch(out'[c][k])
                     ids == ScriptArg(c, k)
                 IN  /\ Len(es) = Len(ids)
                     /\ \A i \in 1..Len(ids) : FetchEntryFor(es[i], ids[i])]_vars

-----------------------------------------------------------------------------
(* The handlers and the codec called on their own, on inputs drawn from     *)
(* bounded sets: one call per behaviour, call holds the function and its    *)
(* arguments, ret what it returned.                                         *)

CallCorrID == 7

\* the request body HandleConnection hands to a handler for a request of a
\* Kafka client with the given body
HandlerBody(apiKey, apiVersion, body) ==
    RequestBodyOf(RequestHeader(apiKey, apiVersion, CallCorrID) \o body)

\* the topic names a DescribeTopicPartitions request can list
MaxNames == 3

DescribeNames == {TopicA, TopicB, TopicX, <<97, 98>>}

NameLists == UNION {[1..n -> DescribeNames] : n \in 0..MaxNames}

DescribeCalls == {[fn |-> "describe", arg |-> names] : names \in NameLists}

CallDescribe ==
    /\ call.fn = "describe"
    /\ ret = "none"
    /\ ret' = HandleDescribeTopicPartitionsV0(CallCorrID,
                  HandlerBody(APIKeyDescribeTopicParts, 0,
                              EncodeDescribe(call.arg)),
                  Topics)
    /\ UNCHANGED <<Topics, files, unwritable, rx, eof, pos, status, out, sent,
                   crashed, call>>

\* ApiVersions requests: the versions around the supported range and at the
\* ends of int16, with bodies of every kind
ApiVersionsVersions == {-32768, -1, 0, 1, 2, 3, 4, 5, 32767}

ApiVersionsBodies == {<<>>, EncodeApiVersions, <<255>>, <<0, 0, 0>>}

ApiVersionsCalls ==
    {[fn |-> "apiversions", arg |-> [ver |-> v, body |-> b]] :
        v \in ApiVersionsVersions, b \in ApiVersionsBodies}

\* the request as HandleConnection reads it off the connection
CallRequest(apiKey, apiVersion, body) ==
    readRequest(EncodeFrame(RequestHeader(apiKey, apiVersion, CallCorrID)
                                \o body), FALSE)

CallApiVersions ==
    /\ call.fn = "apiversions"
    /\ ret = "none"
    /\ \E r \in Route(CallRequest(APIKeyApiVersions, call.arg.ver,
                                  call.arg.body),
                      Topics, files, unwritable) :
           ret' = r.resp
    /\ UNCHANGED <<Topics, files, unwritable, rx, eof, pos, status, out, sent,
                   crashed, call>>

\* unsigned varints: the values around every change of encoded length, and
\* around 2^29, where the fifth byte exceeds 1
UVarIntValues ==
    {0, 1, 127, 128, 300, 16383, 16384, 2097151, 2097152, 268435455,
     268435456, 536870911, 536870912, 536870913, 1073741824, 2147483647}

UVarIntCalls == {[fn |-> "uvarint", arg |-> x] : x \in UVarIntValues}

\* ReadUVarInt on a reader over the bytes AppendUVarInt wrote: the value
\* returned and the reader's offset after the call
CallUVarInt ==
    /\ call.fn = "uvarint"
    /\ ret = "none"
    /\ LET r == ReadUVarInt([B |-> AppendUVarInt(<<>>, call.arg), Off |-> 0])
       IN  ret' = <<r.v, r.br.Off>>
    /\ UNCHANGED <<Topics, files, unwritable, rx, eof, pos, status, out, sent,
                   crashed, call>>

\* Fetch v16 request bodies as HandleConnection hands them to the handler:
\* those of a Kafka client for up to two topics, the same cut short, and
\* bodies with a fourth int32 before isolation_level
FetchIDLists ==
    {<<>>, <<UUID(17)>>, <<UUID(34), UUID(51)>>, <<UUID(51), UUID(17)>>}

FetchBodyFourInt32(ids) ==
    <<0>> \o BigEndian(-1, 4) \o EncodeFetch(ids)

FetchBodies ==
    {HandlerBody(APIKeyFetch, 16, EncodeFetch(ids)) : ids \in FetchIDLists}
      \cup {SubSeq(HandlerBody(APIKeyFetch, 16, EncodeFetch(<<UUID(17)>>)),
                   1, n) : n \in {0, 1, 10, 22, 23, 30}}
      \cup {FetchBodyFourInt32(ids) : ids \in FetchIDLists}

FetchParseCalls == {[fn |-> "parsefetch", arg |-> b] : b \in FetchBodies}

\* parseFetchRequestV16 on a body: the topic ids returned and the reader's
\* offset when it returns
CallParseFetch ==
    /\ call.fn = "parsefetch"
    /\ ret = "none"
    /\ LET r == parseFetchRequestV16(call.arg)
       IN  ret' = <<r.topicIDs, r.br.Off>>
    /\ UNCHANGED <<Topics, files, unwritable, rx, eof, pos, status, out, sent,
                   crashed, call>>

\* Produce v11 request bodies as HandleConnection hands them to the handler:
\* those of a Kafka client, the same cut short, and bodies that start with
\* transactional_id, acks and timeout_ms themselves
ProduceLists == {<<>>, ProduceOne, ProduceMixed, ProduceDup}

ProduceBodyAcks(acks, topics) ==
    <<0>> \o BigEndian(acks, 2) \o SubSeq(EncodeProduce(topics), 4,
                                          Len(EncodeProduce(topics)))

ProduceBodies ==
    {HandlerBody(APIKeyProduce, 11, EncodeProduce(t)) : t \in ProduceLists}
      \cup {SubSeq(HandlerBody(APIKeyProduce, 11, EncodeProduce(ProduceOne)),
                   1, n) : n \in {0, 1, 2, 8, 9, 10}}
      \cup {ProduceBodyAcks(a, ProduceOne) : a \in {-1, 1}}

ProduceParseCalls == {[fn |-> "parseproduce", arg |-> b] : b \in ProduceBodies}

\* parseProduceRequestV11 on a body: whether it panicked, the topic requests
\* read and the reader's offset
CallParseProduce ==
    /\ call.fn = "parseproduce"
    /\ ret = "none"
    /\ LET r == parseProduceRequestV11(call.arg)
       IN  ret' = <<r.panic, r.topics, r.br.Off>>
    /\ UNCHANGED <<Topics, files, unwritable, rx, eof, pos, status, out, sent,
                   crashed, call>>

\* request headers (api key, version, correlation id, client_id as a compact
\* nullable string, tagged-field buffer) followed by a body; a tagged field
\* is a tag id and a length-prefixed value
TaggedField(id, value) == [id |-> id, value |-> value]

EncodeTaggedFields(tags) ==
    <<Len(tags)>> \o Flatten([i \in 1..Len(tags) |->
                                 <<tags[i].id, Len(tags[i].value)>>
                                     \o tags[i].value])

HeaderClientIDs == {<<0>>, <<2, 107>>}

HeaderTags ==
    {<<>>, <<TaggedField(0, <<170, 187>>)>>, <<TaggedField(5, <<>>)>>,
     <<TaggedField(1, <<7>>), TaggedField(2, <<8, 9, 10>>)>>}

HeaderBodies == {<<>>, <<1, 2, 3>>, <<0, 2, 97, 0>>}

EncodeHeaderFrame(arg) ==
    EncodeFrame(BigEndian(APIKeyApiVersions, 2) \o BigEndian(4, 2)
                    \o BigEndian(CallCorrID, 4) \o arg[1]
                    \o EncodeTaggedFields(arg[2]) \o arg[3])

HeaderCalls ==
    {[fn |-> "readrequest", arg |-> <<c, t, b>>] :
        c \in HeaderClientIDs, t \in HeaderTags, b \in HeaderBodies}

\* readRequest on a connection that holds one whole frame: the outcome and
\* the body slice
CallReadRequest ==
    /\ call.fn = "readrequest"
    /\ ret = "none"
    /\ LET r == readRequest(EncodeHeaderFrame(call.arg), FALSE)
       IN  ret' = IF r.kind = "ok" THEN <<"ok", r.body>> ELSE <<r.kind, <<>>>>
    /\ UNCHANGED <<Topics, files, unwritable, rx, eof, pos, status, out, sent,
                   crashed, call>>

\* the read primitives and the readers they are called on: a byte slice and
\* the reader's offset in it
Fill(b, n) == [i \in 1..n |-> b]

FixedPrimitives == {"ReadInt8", "ReadInt16", "ReadInt32", "ReadInt64"}

StringPrimitives == {"ReadCompactString", "ReadCompactNullableString"}

FixedSample == <<255, 1, 2, 3, 4, 5, 6, 7, 8, 9>>

UVarIntSlices ==
    {<<>>, <<129>>, <<128, 128>>, Fill(255, 4), Fill(135, 12), <<133, 1, 7>>,
     <<5, 9>>, Fill(255, 4) \o <<1, 7>>, Fill(128, 5) \o <<1, 7>>}

VarIntSlices ==
    {<<>>, <<129>>, <<1>>, <<3, 9>>, <<172, 2, 7>>, Fill(128, 3),
     Fill(255, 9), Fill(255, 12), Fill(128, 10) \o <<1, 7>>,
     Fill(255, 9) \o <<1, 7>>, Fill(128, 9) \o <<1, 7>>,
     <<254>> \o Fill(255, 8) \o <<1, 7>>, Fill(255, 8) \o <<127, 7>>}

StringSlices ==
    {<<>>, <<0>>, <<1>>, <<131>>, <<3, 97>>, <<3, 97, 98, 7>>, <<2, 107, 0>>}

ReadCalls ==
    {[fn |-> "read", arg |-> <<p, SubSeq(FixedSample, 1, n), 0>>] :
        p \in FixedPrimitives, n \in 0..10}
      \cup {[fn |-> "read", arg |-> <<p, SubSeq(FixedSample, 1, n), 1>>] :
               p \in FixedPrimitives, n \in 1..10}
      \cup {[fn |-> "read", arg |-> <<"ReadUVarInt", b, 0>>] :
               b \in UVarIntSlices}
      \cup {[fn |-> "read", arg |-> <<"ReadVarInt", b, 0>>] :
               b \in VarIntSlices}
      \cup {[fn |-> "read", arg |-> <<"ReadVarInt", <<9, 9>> \o b, 2>>] :
               b \in VarIntSlices}
      \cup {[fn |-> "read", arg |-> <<p, b, 0>>] :
               p \in StringPrimitives, b \in StringSlices}

ReadPrimitive(p, br) ==
    CASE p = "ReadInt8" -> ReadInt8(br)
      [] p = "ReadInt16" -> ReadInt16(br)
      [] p = "ReadInt32" -> ReadInt32(br)
      [] p = "ReadInt64" -> ReadInt64(br)
      [] p = "ReadUVarInt" -> ReadUVarInt(br)
      [] p = "ReadVarInt" -> ReadVarInt(br)
      [] p = "ReadCompactString" -> ReadCompactString(br)
      [] p = "ReadCompactNullableString" -> ReadCompactNullableString(br)

\* one primitive on a reader, then ReadInt8 on the same reader: the value
\* read, the reader's offset after the primitive, and the next byte read
CallRead ==
    /\ call.fn = "read"
    /\ ret = "none"
    /\ LET r == ReadPrimitive(call.arg[1],
                              [B |-> call.arg[2], Off |-> call.arg[3]])
       IN  ret' = <<r.v, r.br.Off, ReadInt8(r.br).v>>
    /\ UNCHANGED <<Topics, files, unwritable, rx, eof, pos, status, out, sent,
                   crashed, call>>

\* the call of this behaviour
CallDrawn ==
    \/ call \in DescribeCalls
    \/ call \in ApiVersionsCalls
    \/ call \in UVarIntCalls
    \/ call \in FetchParseCalls
    \/ call \in ProduceParseCalls
    \/ call \in HeaderCalls
    \/ call \in ReadCalls

InitCalls ==
    /\ Topics = Catalog
    /\ files = [p \in {} |-> <<>>]
    /\ unwritable = Unwritable
    /\ rx = [c \in Conns |-> <<>>]
    /\ eof = [c \in Conns |-> FALSE]
    /\ pos = [c \in Conns |-> 0]
    /\ status = [c \in Conns |-> "open"]
    /\ out = [c \in Conns |-> <<>>]
    /\ sent = [c \in Conns |-> <<>>]
    /\ crashed = FALSE
    /\ CallDrawn
    /\ ret = "none"

NextCalls ==
    \/ CallDescribe
    \/ CallApiVersions
    \/ CallUVarInt
    \/ CallParseFetch
    \/ CallParseProduce
    \/ CallReadRequest
    \/ CallRead

SpecCalls == InitCalls /\ [][NextCalls]_vars

-----------------------------------------------------------------------------
(* Startup: main on a command line, a metadata log and a properties file   *)
(* drawn from bounded sets. The files are laid out as Kafka lays them out:  *)
(* record batches (61-byte header, batch_length counting what follows it)   *)
(* of records with a null key holding a TopicRecord or a PartitionRecord.   *)

\* a signed varint as Kafka writes it (zig-zag)
EncodeVarInt(n) == AppendUVarInt(<<>>, IF n >= 0 THEN 2 * n ELSE (-2) * n - 1)

Zeros(n) == [i \in 1..n |-> 0]

TopicRecordValue(name, id) ==
    <<1, 2, 0>> \o AppendCompactString(<<>>, name) \o id \o <<0>>

PartitionRecordValue(partition, id) ==
    <<1, 3, 1>> \o BigEndian(partition, 4) \o id
        \o <<2>> \o BigEndian(1, 4) \o <<2>> \o BigEndian(1, 4) \o <<1, 1>>
        \o BigEndian(1, 4) \o BigEndian(0, 4) \o BigEndian(0, 4)
        \o <<2>> \o UUID(1) \o <<0>>

EncodeRecord(value) ==
    LET body == <<0>> \o EncodeVarInt(0) \o EncodeVarInt(0) \o EncodeVarInt(-1)
                    \o EncodeVarInt(Len(value)) \o value \o <<0>>
    IN  EncodeVarInt(Len(body)) \o body

EncodeBatch(values) ==
    LET records == Flatten([i \in 1..Len(values) |-> EncodeRecord(values[i])])
    IN  Zeros(8) \o BigEndian(49 + Len(records), 4) \o Zeros(4) \o <<2>>
            \o Zeros(40) \o BigEndian(Len(values), 4) \o records

\* the metadata logs: a, with two partitions; b, without partition record;
\* a partition record alone; a partition record in one batch and the
\* topics a and b in the next
LogA2 ==
    EncodeBatch(<<TopicRecordValue(TopicA, UUID(17)),
                  PartitionRecordValue(0, UUID(17)),
                  PartitionRecordValue(1, UUID(17))>>)

LogB == EncodeBatch(<<TopicRecordValue(TopicB, UUID(34))>>)

LogNoTopic == EncodeBatch(<<PartitionRecordValue(0, UUID(17))>>)

LogAB ==
    EncodeBatch(<<PartitionRecordValue(0, UUID(17))>>)
        \o EncodeBatch(<<TopicRecordValue(TopicA, UUID(17)),
                         TopicRecordValue(TopicB, UUID(34))>>)

Absent == [present |-> FALSE, data |-> <<>>]

File(bytes) == [present |-> TRUE, data |-> bytes]

Logs == {Absent, File(<<>>), File(Zeros(40)), File(LogA2), File(LogB),
         File(LogNoTopic), File(LogAB)}

\* the text of a UUID whose 16 bytes are all 16 * d + d, for a decimal digit d
UUIDText(d) ==
    LET h(n) == [i \in 1..n |-> 48 + d]
    IN  h(8) \o <<45>> \o h(4) \o <<45>> \o h(4) \o <<45>> \o h(4) \o <<45>>
            \o h(12)

\* topic.<name>.id=<uuid> and topic.<name>.partitions=<n>, one per line
LineID(name, d) == TopicPrefix \o name \o <<46>> \o FieldID \o <<61>>
                       \o UUIDText(d) \o <<10>>

LinePartitions(name, text) ==
    TopicPrefix \o name \o <<46>> \o FieldPartitions \o <<61>> \o text \o <<10>>

\* the properties file of the catalog the connections are served from
CatalogText ==
    LineID(TopicA, 1) \o LinePartitions(TopicA, <<51>>)
        \o LineID(TopicB, 2) \o LineID(TopicC, 2)
        \o LinePartitions(TopicC, <<49>>)

\* malformed lines for a topic name: an unknown field, an invalid UUID, a
\* partitions value that is no number, a negative partitions value
MalformedLines ==
    UNION {{TopicPrefix \o n \o <<46, 99, 111, 108, 111, 114, 61, 49, 10>>,
            TopicPrefix \o n \o <<46>> \o FieldID \o <<61, 49, 50, 51, 10>>,
            LinePartitions(n, <<120>>),
            LinePartitions(n, <<45, 49>>)} : n \in {TopicA, TopicC}}

\* the lines before and after a malformed line
LineContexts ==
    {<<<<>>, <<>>>>,
     <<LineID(TopicA, 1) \o LinePartitions(TopicA, <<51>>), <<>>>>,
     <<LineID(TopicA, 1), LinePartitions(TopicA, <<51>>)>>}

MalformedFiles ==
    {File(c[1] \o m \o c[2]) : c \in LineContexts, m \in MalformedLines}

PropertiesFiles ==
    {Absent, File(<<>>), File(<<35, 32, 99, 10>>), File(CatalogText),
     File(LineID(TopicC, 3) \o LinePartitions(TopicC, <<50>>)),
     File(LinePartitions(TopicC, <<45, 49>>)),
     File(<<32>> \o LineID(TopicA, 3)),
     File(<<112, 111, 114, 116, 61, 57, 48, 57, 50, 10>>)}
      \cup MalformedFiles

\* os.Args: the program name, then the arguments
CommandLines == {<<"broker">>, <<"broker", "server.properties">>}

MainCalls ==
    {[fn |-> "main", arg |-> [args |-> a, log |-> l, props |-> p]] :
        a \in CommandLines, l \in Logs, p \in PropertiesFiles}

\* metadata logs given by what they hold: garbage bytes, record batches,
\* garbage bytes, record batches. A batch is the sequence of its records, a
\* record a TopicRecord (name, UUID) or a PartitionRecord (UUID)
TRec(name, u) == [kind |-> "T", name |-> name, id |-> u]

PRec(u) == [kind |-> "P", name |-> <<>>, id |-> u]

RecValue(rec) ==
    IF rec.kind = "T" THEN TopicRecordValue(rec.name, UUID(rec.id))
    ELSE PartitionRecordValue(0, UUID(rec.id))

EncodeBatches(batches) ==
    Flatten([i \in 1..Len(batches) |->
                EncodeBatch([j \in 1..Len(batches[i]) |->
                                RecValue(batches[i][j])])])

BatchA2 == <<TRec(TopicA, 17), PRec(17), PRec(17)>>

BatchA3 == <<TRec(TopicA, 17), PRec(17), PRec(17), PRec(17)>>

BatchAB == <<TRec(TopicA, 17), TRec(TopicB, 34)>>

LogFirst ==
    {<<>>, <<BatchA2>>, <<BatchA3>>, <<<<PRec(17)>>>>, <<<<TRec(TopicB, 34)>>>>,
     <<<<PRec(17), PRec(34)>>, <<PRec(17)>>>>}

LogRest == {<<>>, <<BatchAB>>, <<BatchA2>>, <<<<PRec(34), PRec(17)>>>>}

LogGarbage == {<<>>, Zeros(1), Zeros(13), Fill(255, 5)}

LogBytes(arg) ==
    arg.pre \o EncodeBatches(arg.first) \o arg.mid \o EncodeBatches(arg.rest)

LoadCalls ==
    {[fn |-> "loadClusterMetadata",
      arg |-> [pre |-> g, first |-> f, mid |-> m, rest |-> r]] :
        g \in LogGarbage, f \in LogFirst, m \in LogGarbage, r \in LogRest}

\* loadClusterMetadata on a log file and an empty catalog
CallLoadClusterMetadata ==
    /\ call.fn = "loadClusterMetadata"
    /\ ret = "none"
    /\ LET r == loadClusterMetadata(File(LogBytes(call.arg)), Topics)
       IN  /\ Topics' = r.topics
           /\ ret' = <<r.err>>
    /\ UNCHANGED <<files, unwritable, rx, eof, pos, status, out, sent,
                   crashed, call>>

\* main up to net.Listen: the catalog it serves from, whether it logged the
\* warning, and the files it read, in order
MainLoad(arg, topics) ==
    IF Len(arg.args) > 1
    THEN LoadFromProperties(arg.log, arg.props, topics)
    ELSE [err |-> FALSE, topics |-> topics, read |-> <<>>]

\* what main leaves behind: state.Topics, and what the call observed
MainReturns(r) ==
    /\ Topics' = r.topics
    /\ ret' = <<r.err, r.read>>

\* main from os.Args to the listener, on an empty catalog
Main ==
    /\ call.fn = "main"
    /\ ret = "none"
    /\ MainReturns(MainLoad(call.arg, Topics))
    /\ UNCHANGED <<files, unwritable, rx, eof, pos, status, out, sent,
                   crashed, call>>

InitStartup ==
    /\ Topics = EmptyMap
    /\ files = [p \in {} |-> <<>>]
    /\ unwritable = Unwritable
    /\ rx = [c \in Conns |-> <<>>]
    /\ eof = [c \in Conns |-> FALSE]
    /\ pos = [c \in Conns |-> 0]
    /\ status = [c \in Conns |-> "open"]
    /\ out = [c \in Conns |-> <<>>]
    /\ sent = [c \in Conns |-> <<>>]
    /\ crashed = FALSE
    /\ (call \in MainCalls \/ call \in LoadCalls)
    /\ ret = "none"

NextStartup == Main \/ CallLoadClusterMetadata

SpecStartup == InitStartup /\ [][NextStartup]_vars

\* requests that name no topic of any catalog: the topic name is empty, null
\* or declares more bytes than remain. Once main has loaded the catalog it
\* listens, and a client sends one of them
ProducePrelude == <<0>> \o BigEndian(-1, 2) \o BigEndian(1000, 4)

DescribeTail == BigEndian(100, 4) \o <<255, 0>>

NamelessRequests ==
    << [key |-> APIKeyDescribeTopicParts, ver |-> 0,
        body |-> EncodeDescribe(<< <<>> >>)],
       [key |-> APIKeyDescribeTopicParts, ver |-> 0,
        body |-> <<2, 0, 0>> \o DescribeTail],
       [key |-> APIKeyDescribeTopicParts, ver |-> 0, body |-> <<2, 9, 97>>],
       [key |-> APIKeyProduce, ver |-> 11,
        body |-> ProducePrelude \o <<2, 1, 2>> \o BigEndian(0, 4)
                     \o <<3, 170, 187>> \o <<0, 0, 0>>],
       [key |-> APIKeyProduce, ver |-> 11,
        body |-> ProducePrelude \o <<2, 0, 2>> \o BigEndian(0, 4)
                     \o <<3, 170, 187>> \o <<0, 0, 0>>],
       [key |-> APIKeyProduce, ver |-> 11,
        body |-> ProducePrelude \o <<2, 10, 2, 0, 0, 0, 0, 1, 0, 0>>],
       [key |-> APIKeyProduce, ver |-> 11,
        body |-> ProducePrelude \o <<2, 5>>] >>

\* a client connects once main listens and sends entry t of NamelessRequests
ClientSendNameless(c, t) ==
    /\ ret # "none"
    /\ sent[c] = <<>>
    /\ rx' = [rx EXCEPT ![c] = EncodeFrame(
                  RequestHeader(NamelessRequests[t].key, NamelessRequests[t].ver,
                                CallCorrID)
                      \o NamelessRequests[t].body)]
    /\ sent' = [sent EXCEPT ![c] = <<t>>]
    /\ UNCHANGED <<Topics, files, unwritable, eof, pos, status, out, crashed,
                   call, ret>>

\* main, and then the connection of one client served from the catalog that
\* main loaded
NextListen ==
    \/ Main
    \/ CallLoadClusterMetadata
    \/ \E t \in 1..Len(NamelessRequests) : ClientSendNameless(1, t)
    \/ HandleConnection(1)

SpecListen == InitStartup /\ [][NextListen]_vars

Returned(fn) == call.fn = fn /\ ret # "none"

\* the partition entries of a DescribeTopicPartitions response, from o on
RECURSIVE DecodeDescribeParts(_, _, _)
DecodeDescribeParts(r, o, n) ==
    IF n = 0
    THEN <<>>
    ELSE <<[error_code |-> SignedBE(r, o, 2),
            partition_index |-> SignedBE(r, o + 2, 4),
            leader_id |-> SignedBE(r, o + 6, 4),
            leader_epoch |-> SignedBE(r, o + 10, 4),
            replicas |-> [i \in 1..(r[o + 15] - 1) |->
                             SignedBE(r, o + 15 + 4 * (i - 1), 4)],
            isr |-> [i \in 1..(r[o + 20] - 1) |->
                        SignedBE(r, o + 20 + 4 * (i - 1), 4)]]>>
             \o DecodeDescribeParts(r, o + 28, n - 1)

\* the topic entries of a DescribeTopicPartitions response, from o on
RECURSIVE DecodeDescribeTopics(_, _, _)
DecodeDescribeTopics(r, o, n) ==
    IF n = 0
    THEN <<>>
    ELSE LET l == r[o + 3] - 1
             np == r[o + l + 21] - 1
             p == o + l + 21 + 28 * np
         IN  <<[error_code |-> SignedBE(r, o, 2),
                name |-> SubSeq(r, o + 4, o + 3 + l),
                topic_id |-> SubSeq(r, o + l + 4, o + l + 19),
                partitions |-> DecodeDescribeParts(r, o + l + 21, np),
                authorized_ops |-> SignedBE(r, p, 4)]>>
                 \o DecodeDescribeTopics(r, p + 5, n - 1)

\* a DescribeTopicPartitions v0 response: length, correlation id, tagged
\* fields, throttle_time_ms, topics
DecodeDescribe(resp) == DecodeDescribeTopics(resp, 14, resp[14] - 1)

RECURSIVE LexLess(_, _)
\* s comes strictly before t in lexicographic order of the bytes
LexLess(s, t) ==
    /\ t # <<>>
    /\ \/ s = <<>>
       \/ s[1] < t[1]
       \/ s[1] = t[1] /\ LexLess(Tail(s), Tail(t))

Occurrences(seq, x) == Cardinality({i \in 1..Len(seq) : seq[i] = x})

\* C12: the topic responses of DescribeTopicPartitions v0 come in ascending
\* lexicographic order of their names, whatever the order of the request,
\* and every requested name has as many responses as the request lists it.
C12_DescribeSortedOnePerName ==
    Returned("describe") =>
        LET ts == DecodeDescribe(ret)
        IN  /\ Len(ts) = Len(call.arg)
            /\ \A i \in 1..Len(ts) : \A j \in 1..Len(ts) :
                   i < j => ~LexLess(ts[j].name, ts[i].name)
            /\ \A name \in DescribeNames :
                   Occurrences([i \in 1..Len(ts) |-> ts[i].name], name)
                       = Occurrences(call.arg, name)

\* C12 witness: a request listing x, a, x was answered.
C12_Witness ==
    /\ Returned("describe")
    /\ call.arg = <<TopicX, TopicA, TopicX>>

\* C13: in a DescribeTopicPartitions v0 response, the entry of a requested
\* name that is no catalog key has error_code 3, the zero UUID, no partition
\* entry and authorized_ops -2147483648; the entry of a catalog key has
\* error_code 0, the catalog's UUID and max(partition_count, 1) partition
\* entries with indexes 0, 1, .. in ascending order, each with leader_id 1,
\* leader_epoch -1, replicas [1] and isr [1].
C13_DescribeTopicEntries ==
    Returned("describe") =>
        LET ts == DecodeDescribe(ret)
        IN  \A i \in 1..Len(ts) :
               /\ \E j \in 1..Len(call.arg) : call.arg[j] = ts[i].name
               /\ IF ts[i].name \notin DOMAIN Topics
                  THEN /\ ts[i].error_code = 3
                       /\ ts[i].topic_id = [k \in 1..16 |-> 0]
                       /\ ts[i].partitions = <<>>
                       /\ ts[i].authorized_ops = (-2147483647) - 1
                  ELSE LET meta == Topics[ts[i].name]
                           n == IF meta.Partitions > 1 THEN meta.Partitions
                                ELSE 1
                       IN  /\ ts[i].error_code = 0
                           /\ ts[i].topic_id = meta.ID
                           /\ Len(ts[i].partitions) = n
                           /\ \A q \in 1..n :
                                 /\ ts[i].partitions[q].partition_index = q - 1
                                 /\ ts[i].partitions[q].leader_id = 1
                                 /\ ts[i].partitions[q].leader_epoch = -1
                                 /\ ts[i].partitions[q].replicas = <<1>>
                                 /\ ts[i].partitions[q].isr = <<1>>

\* C13 witness: a request for b (no partition count), x (unknown) and a
\* (three partitions) was answered.
C13_Witness ==
    /\ Returned("describe")
    /\ call.arg = <<TopicB, TopicX, TopicA>>
    /\ Len(DecodeDescribe(ret)) = 3

\* the ApiVersions v0..v4 response body of the specification: error_code 0,
\* the four entries (api_key, min, max, tagged fields), throttle_time_ms 0,
\* tagged fields
ApiVersionsBody ==
    <<0, 0>> \o <<5>>
        \o <<0, 0, 0, 0, 0, 11, 0>>
        \o <<0, 1, 0, 0, 0, 16, 0>>
        \o <<0, 18, 0, 0, 0, 4, 0>>
        \o <<0, 75, 0, 0, 0, 0, 0>>
        \o <<0, 0, 0, 0>> \o <<0>>

\* C14: an ApiVersions request at a version in 0..4 is answered, whatever its
\* body, with the correlation id followed by error_code 0, the four entries
\* (0, 0, 11), (1, 0, 16), (18, 0, 4), (75, 0, 0) in that order,
\* throttle_time_ms 0 and an empty tagged buffer; at any other version with
\* the correlation id followed by error_code 35 alone.
C14_ApiVersionsBody ==
    Returned("apiversions") =>
        LET body == IF call.arg.ver \in 0..4 THEN ApiVersionsBody
                    ELSE <<0, 35>>
        IN  ret = BigEndian(4 + Len(body), 4) \o BigEndian(CallCorrID, 4)
                      \o body

\* C14 witness: a request at version 3 with a body that is no ApiVersions
\* body was answered.
C14_Witness ==
    /\ Returned("apiversions")
    /\ call.arg.ver = 3
    /\ call.arg.body = <<255>>
    /\ Len(ret) > 10

\* C15: a successful ApiVersions response has its body right after the
\* correlation id; a successful DescribeTopicPartitions, Fetch or Produce
\* response has one byte 00 after the correlation id and its body after
\* that byte (throttle_time_ms and the topics array for
\* DescribeTopicPartitions; throttle_time_ms, error_code, session_id and the
\* topics array for Fetch; the topics array for Produce).
C15_ResponseHeaderShape ==
    \A c \in Conns : \A k \in 1..Len(out[c]) :
        LET key == ApiKeyOf(RequestAt(c, k))
            resp == ResponseAt(c, k)
        IN  (Supported(key, ApiVersionOf(RequestAt(c, k))) /\ Scripted(c, k))
            => /\ key = 18 => SubSeq(resp, 9, Len(resp)) = ApiVersionsBody
               /\ key = 75 => /\ resp[9] = 0
                              /\ SubSeq(resp, 10, 13) = <<0, 0, 0, 0>>
                              /\ resp[14] = Len(ScriptArg(c, k)) + 1
               /\ key = 1 => /\ resp[9] = 0
                             /\ SubSeq(resp, 10, 19)
                                    = <<0, 0, 0, 0, 0, 0, 0, 0, 0, 0>>
                             /\ resp[20] = Len(ScriptArg(c, k)) + 1
               /\ key = 0 => /\ resp[9] = 0
                             /\ resp[10] = Len(ScriptArg(c, k)) + 1

\* C15 witness: a connection got a successful ApiVersions response and then
\* a successful DescribeTopicPartitions response.
C15_Witness ==
    \E c \in Conns :
        /\ Len(out[c]) = 2
        /\ ApiKeyOf(RequestAt(c, 1)) = 18
        /\ Supported(18, ApiVersionOf(RequestAt(c, 1)))
        /\ ApiKeyOf(RequestAt(c, 2)) = 75
        /\ Supported(75, ApiVersionOf(RequestAt(c, 2)))

\* C16 (as the specification states it, for one state of the broker): the
\* response to the request a connection is about to read is determined by
\* the request and the catalog: every way the dispatcher can run on it
\* gives the same bytes. The code breaks it: with two catalog entries of one
\* UUID, the Fetch response depends on where the range over the catalog map
\* stops.
C16_ResponseDetermined ==
    \A c \in Conns :
        (status[c] = "open" /\ ~crashed) =>
            LET rq == readRequest(Unread(c), eof[c])
            IN  rq.kind = "ok" =>
                    \A r1, r2 \in Route(rq, Topics, files, unwritable) :
                        r1.resp = r2.resp

\* C17: the catalog is the one loaded at startup in every state, whatever
\* requests were served on the connections; a Produce to an unknown topic
\* does not add it.
C17_CatalogNeverModified == Topics = Catalog

\* C17 witness: a Produce request naming the unknown topic x was answered on
\* one connection and a request was answered on the other.
C17_Witness ==
    \E c \in Conns : \E d \in Conns \ {c} :
        /\ Len(out[c]) = 1
        /\ ApiKeyOf(RequestAt(c, 1)) = 0
        /\ Scripted(c, 1)
        /\ ScriptArg(c, 1) = ProduceMixed
        /\ Len(out[d]) = 1
        /\ TopicX \notin DOMAIN Topics

\* C20 (as the specification states it): for every 32-bit unsigned value x,
\* ReadUVarInt on the bytes AppendUVarInt(x) wrote returns x and leaves the
\* cursor after the last of them, 1 to 5 bytes. The code breaks it for every
\* x >= 2^29: the fifth byte is then 2 or more, and ReadUVarInt drops a
\* final fifth byte above 1.
C20_UVarIntRoundTrip ==
    Returned("uvarint") =>
        LET written == AppendUVarInt(<<>>, call.arg)
        IN  /\ ret[1] = call.arg
            /\ ret[2] = Len(written)
            /\ Len(written) \in 1..5

\* the topics a metadata log holds: the names of its TopicRecords
LogTopics(log) ==
    IF ~log.present THEN {}
    ELSE DOMAIN BatchScan(log.data, 0,
                    [topicRecords |-> EmptyMap,
                     partitionCounts |-> EmptyMap]).topicRecords

\* main has returned from loading and goes on to listen
Started == Returned("main")

ArgumentGiven == Len(call.arg.args) > 1

\* C18 (as the specification states it): when the metadata log is present,
\* main has read it before it listens, with or without the properties-file
\* argument, and the catalog holds the topics of the log. The code breaks
\* it: without the argument main calls no loader, the log is not read and
\* the catalog stays empty.
C18_MetadataLogReadWhenPresent ==
    (Started /\ call.arg.log.present) =>
        /\ Len(ret[2]) >= 1
        /\ ret[2][1] = "log"
        /\ LogTopics(call.arg.log) \subseteq DOMAIN Topics

\* C19: when main is given the properties-file argument, the metadata-log
\* decoder succeeds exactly when the log holds at least one topic; then the
\* properties file is not read and the catalog holds the topics of the log
\* and no other; otherwise (log missing or without a topic) the properties
\* file is read next, the catalog holds exactly what its lines define, and if
\* it cannot be read the catalog is still empty, main logs the warning and
\* goes on to listen.
C19_FallbackOneDirection ==
    (Started /\ ArgumentGiven) =>
        LET log == call.arg.log
            props == call.arg.props
        IN  /\ (ret[2] = <<"log">>) <=> (LogTopics(log) # {})
            /\ LogTopics(log) # {} =>
                   /\ DOMAIN Topics = LogTopics(log)
                   /\ ret[1] = FALSE
            /\ LogTopics(log) = {} =>
                   /\ ret[2] = <<"log", "props">>
                   /\ props.present =>
                          /\ Topics = PropertiesLines(Split(props.data, 10), 1,
                                                      EmptyMap)
                          /\ ret[1] = FALSE
                   /\ ~props.present => (Topics = EmptyMap /\ ret[1] = TRUE)
            /\ crashed = FALSE

\* C19 witness: main was given the argument, the log holds the topic a
\* alone, the properties file defines a, b and c, and the catalog main
\* listens with holds a alone.
C19_Witness ==
    /\ Started
    /\ ArgumentGiven
    /\ call.arg.log = File(LogA2)
    /\ call.arg.props = File(CatalogText)
    /\ DOMAIN Topics = {TopicA}
    /\ ret[2] = <<"log">>

-----------------------------------------------------------------------------
(* The partition store behind Produce and Fetch: clients that send only     *)
(* Produce v11 and Fetch v16 requests, up to StoreSends of them              *)

\* a Produce v11 body with one topic and one partition entry whose records
\* field is the bytes field, followed by the bytes tail
EncodeProduceField(name, index, field, tail) ==
    <<0>> \o BigEndian(-1, 2) \o BigEndian(1000, 4) \o <<2>>
        \o <<Len(name) + 1>> \o name \o <<2>> \o BigEndian(index, 4)
        \o field \o tail

\* a Produce request for one partition: records is what the entry carries
\* as the parser takes it
ProduceTo(name, index, records, field, tail) ==
    [kind |-> "produce", key |-> APIKeyProduce, ver |-> 11, name |-> name,
     index |-> index, records |-> records, field |-> field,
     body |-> EncodeProduceField(name, index, field, tail)]

ProduceRecords(name, index, records) ==
    ProduceTo(name, index, records, <<Len(records) + 1>> \o records, <<0, 0, 0>>)

\* a Fetch v16 body with one topic that names the partition index
EncodeFetchPartition(id, index) ==
    BigEndian(500, 4) \o BigEndian(1, 4) \o BigEndian(52428800, 4) \o <<0>>
        \o BigEndian(0, 4) \o BigEndian(0, 4) \o <<2>>
        \o id \o <<2>> \o BigEndian(index, 4) \o BigEndian(-1, 4)
        \o BigEndian(0, 8) \o BigEndian(-1, 4) \o BigEndian(-1, 8)
        \o BigEndian(1048576, 4) \o <<0>> \o <<0>>
        \o <<1, 1, 0>>

FetchOf(name, id, index) ==
    [kind |-> "fetch", key |-> APIKeyFetch, ver |-> 16, name |-> name,
     index |-> index, records |-> <<>>, field |-> <<>>,
     body |-> EncodeFetchPartition(id, index)]

\* records fields that carry no records: null, empty, and a length that
\* declares more bytes than the body holds
NullField == <<0>>
EmptyField == <<1>>
OverlongField == <<10, 170, 187>>

StoreScript ==
    << ProduceRecords(TopicA, 0, RecordsB1),
       ProduceRecords(TopicA, 0, RecordsB2),
       ProduceRecords(TopicA, 2, RecordsB2),
       ProduceRecords(TopicA, 3, RecordsB1),
       ProduceRecords(TopicA, -1, RecordsB1),
       ProduceRecords(TopicX, 0, RecordsB1),
       ProduceRecords(TopicB, 1, RecordsB1),
       ProduceTo(TopicA, 0, <<>>, NullField, <<0, 0, 0>>),
       ProduceTo(TopicA, 0, <<>>, EmptyField, <<0, 0, 0>>),
       ProduceTo(TopicA, 0, <<>>, OverlongField, <<>>),
       FetchOf(TopicA, UUID(17), 0),
       FetchOf(TopicA, UUID(17), 2) >>

StoreSends == 3

\* the client of connection c sends entry t of StoreScript; sent[c] holds
\* the entries of StoreScript sent on c
ClientSendStore(c, t) ==
    /\ ~crashed
    /\ status[c] = "open"
    /\ ~eof[c]
    /\ TotalSent < StoreSends
    /\ rx' = [rx EXCEPT ![c] = @ \o EncodeFrame(
                  RequestHeader(StoreScript[t].key, StoreScript[t].ver,
                                CorrOf(c, Len(sent[c]) + 1))
                      \o StoreScript[t].body)]
    /\ sent' = [sent EXCEPT ![c] = Append(@, t)]
    /\ UNCHANGED <<Topics, files, unwritable, eof, pos, status, out, crashed,
                   call, ret>>

NextStore ==
    \E c \in Conns :
        \/ HandleConnection(c)
        \/ \E t \in 1..Len(StoreScript) : ClientSendStore(c, t)

SpecStore == Init /\ [][NextStore]_vars

\* the request of StoreScript behind the k-th frame of connection c
StoreRequest(c, k) == StoreScript[sent[c][k]]

\* every request of StoreScript is answered, so that the k-th response of c
\* answers the k-th request of c
StoreServed == ~crashed /\ \A c \in Conns : status[c] = "open"
-----------------------------------------------------------------------------
(* Produce handlers running in parallel: each connection is served by its   *)
(* own goroutine, and os.WriteFile is two steps on the file system, an open  *)
(* that truncates the file and a write at offset 0 of the opened file        *)

\* the request the goroutine of c reads next
NextRequest(c) == readRequest(Unread(c), eof[c])

\* the one partition entry of Produce topics with one topic and one
\* partition
EntryOf(topics) ==
    [name |-> topics[1].Name,
     index |-> topics[1].Partitions[1].Index,
     records |-> topics[1].Partitions[1].Records]

OnlyEntry(rq) == EntryOf(parseProduceRequestV11(rq.body).topics)

\* the parsed Produce request p has one partition entry, and the handler
\* writes it to the store
OneWritable(p) ==
    /\ ~p.panic
    /\ Len(p.topics) = 1
    /\ Len(p.topics[1].Partitions) = 1
    /\ ~Refused(p.topics[1].Name, p.topics[1].Partitions[1].Index)

\* the request rq is a Produce v11 with one partition entry that the
\* handler writes to the store
WritesOneEntry(rq) ==
    /\ rq.kind = "ok"
    /\ rq.apiKey = APIKeyProduce
    /\ rq.apiVersion = 11
    /\ OneWritable(parseProduceRequestV11(rq.body))

WritesOne(c) == WritesOneEntry(NextRequest(c))

\* os.OpenFile(name, O_WRONLY|O_CREATE|O_TRUNC, perm): the file is there and
\* empty
OpenTruncate(fs, path) == (path :> <<>>) @@ fs

\* f.Write(data) on a file opened at offset 0: data replaces the first
\* len(data) bytes of the file, what lies beyond them stays
WriteAtStart(fs, path, data) ==
    (path :> (data \o SubSeq(fs[path], Len(data) + 1, Len(fs[path])))) @@ fs

OpenEntry(c, e) ==
    /\ files' = OpenTruncate(files, LogPath(e.name, e.index))
    /\ status' = [status EXCEPT ![c] = "writing"]

\* HandleConnection on c up to the open inside os.WriteFile: the request was
\* read and parsed, the directory made, the file opened and truncated
ProduceOpen(c) ==
    /\ ~crashed
    /\ status[c] = "open"
    /\ WritesOne(c)
    /\ OpenEntry(c, OnlyEntry(NextRequest(c)))
    /\ UNCHANGED <<Topics, unwritable, rx, eof, pos, out, sent, crashed, call,
                   ret>>

WriteEntry(c, e) ==
    files' = WriteAtStart(files, LogPath(e.name, e.index), e.records)

\* the response to rq is written to the connection of c
Respond(c, rq) ==
    /\ pos' = [pos EXCEPT ![c] = @ + rq.n]
    /\ \E r \in Route(rq, Topics, files, unwritable) :
          \E wok \in WriteOutcomes(c) :
             IF wok
             THEN /\ out' = [out EXCEPT ![c] = Append(@, r.resp)]
                  /\ status' = [status EXCEPT ![c] = "open"]
             ELSE /\ out' = out
                  /\ status' = [status EXCEPT ![c] = "write"]

\* HandleConnection on c from the write inside os.WriteFile on: the records
\* are written, the response is built and written to the connection
ProduceWrite(c) ==
    /\ ~crashed
    /\ status[c] = "writing"
    /\ WriteEntry(c, OnlyEntry(NextRequest(c)))
    /\ Respond(c, NextRequest(c))
    /\ UNCHANGED <<Topics, unwritable, rx, eof, sent, crashed, call, ret>>

\* HandleConnection on a request that writes no file, or more than one
HandleOther(c) == ~WritesOne(c) /\ HandleConnection(c)

NextRace ==
    \E c \in Conns :
        \/ ProduceOpen(c)
        \/ ProduceWrite(c)
        \/ HandleOther(c)
        \/ \E t \in 1..Len(StoreScript) : ClientSendStore(c, t)

SpecRace == Init /\ [][NextRace]_vars

-----------------------------------------------------------------------------
(* C21 .. C30: the request parsers, the read primitives, the metadata log   *)
(* and the properties file                                                  *)

\* the topic ids a Fetch body holds when its topics array starts at Go
\* offset o: the count byte less one, and the first 16 bytes of the first
\* entry
FetchTopicsAt(body, o, ids) ==
    (Len(body) > o /\ body[o + 1] < 128) =>
        /\ Len(ids) <= (IF body[o + 1] = 0 THEN 0 ELSE body[o + 1] - 1)
        /\ \A i \in 1..Len(ids) : Len(ids[i]) = 16
        /\ (body[o + 1] >= 2 /\ Len(body) >= o + 17) =>
               (Len(ids) >= 1 /\ ids[1] = SubSeq(body, o + 2, o + 17))

NullFirstString(body) == Len(body) >= 1 /\ body[1] = 0

\* C21 (amended): on a body with a null cluster_id the Fetch v16 parser
\* consumes the cluster_id byte, three int32 values, one int8 and two int32
\* values, so the topics array length is the byte at body offset 22; it
\* returns at most that many less one topic ids, each the 16 bytes of its
\* array entry, the first being the bytes at offsets 23..38.
C21_FetchPreludeThreeInt32 ==
    (Returned("parsefetch") /\ NullFirstString(call.arg)) =>
        FetchTopicsAt(call.arg, 22, ret[1])

\* C21 witness: the body of a Kafka client's request for two topics was
\* parsed and both topic ids came back.
C21_Witness ==
    /\ Returned("parsefetch")
    /\ call.arg = HandlerBody(APIKeyFetch, 16, EncodeFetch(<<UUID(34), UUID(51)>>))
    /\ Len(ret[1]) = 2
    /\ ret[1][1] = UUID(34)

\* C21 (as the specification states it): four int32 values precede
\* isolation_level, so the topics array length is the byte at body offset
\* 26.
C21_FetchPreludeFourInt32 ==
    (Returned("parsefetch") /\ NullFirstString(call.arg)) =>
        FetchTopicsAt(call.arg, 26, ret[1])

\* the topic requests a Produce body holds when its topics array starts at
\* Go offset o: as many as the count byte less one (fewer when the parser
\* panicked on the way), the first named by the compact string that follows
\* the count
ProduceTopicsAt(body, o, panic, topics) ==
    (Len(body) > o /\ body[o + 1] < 128) =>
        /\ IF panic
           THEN Len(topics) < body[o + 1] - 1
           ELSE Len(topics) = (IF body[o + 1] = 0 THEN 0 ELSE body[o + 1] - 1)
        /\ (Len(topics) >= 1 /\ Len(body) >= o + 2 /\ body[o + 2] \in 2..127
                /\ Len(body) >= o + 1 + body[o + 2]) =>
               topics[1].Name = SubSeq(body, o + 3, o + 1 + body[o + 2])

\* C22 (amended): the Produce v11 parser consumes a compact nullable string
\* (transactional_id), an unsigned varint, an int16 (acks) and an int32
\* (timeout_ms) and then the compact array of topics: with a null
\* transactional_id and a one-byte varint the topics array length is the
\* byte at body offset 8.
C22_ProducePreludeWithVarInt ==
    (Returned("parseproduce") /\ NullFirstString(call.arg)
        /\ Len(call.arg) >= 2 /\ call.arg[2] < 128) =>
        ProduceTopicsAt(call.arg, 8, ret[1], ret[2])

\* C22 witness: the body of a Kafka client's request for the topics x and a
\* was parsed without panic and both topic requests came back.
C22_Witness ==
    /\ Returned("parseproduce")
    /\ call.arg = HandlerBody(APIKeyProduce, 11, EncodeProduce(ProduceMixed))
    /\ ~ret[1]
    /\ ret[2] = ProduceMixed

\* C22 (as the specification states it): nothing is consumed between
\* transactional_id and acks, so with a null transactional_id the topics
\* array length is the byte at body offset 7.
C22_ProducePreludeNoOtherField ==
    (Returned("parseproduce") /\ NullFirstString(call.arg)) =>
        ProduceTopicsAt(call.arg, 7, ret[1], ret[2])

\* C23: the header parser skips the tagged-field buffer tag by tag, so the
\* body slice is what follows the last tagged field (what follows the count
\* byte when there is no tagged field).
C23_TaggedFieldsSkipped ==
    Returned("readrequest") => ret = <<"ok", call.arg[3]>>

\* the bytes a reader still holds at its offset
Remaining(arg) == SubSeq(arg[2], arg[3] + 1, Len(arg[2]))

RECURSIVE VarintEnd(_, _, _)
\* the position of the byte that ends the varint at the start of rest (the
\* first of its max first bytes without continuation bit); max when all of
\* them carry the bit, Len(rest) + 1 when rest ends before
VarintEnd(rest, i, max) ==
    IF i > Len(rest) THEN i
    ELSE IF i = max \/ rest[i] < 128 THEN i
    ELSE VarintEnd(rest, i + 1, max)

\* the number of bytes a primitive needs at the start of rest
Needs(p, rest) ==
    CASE p = "ReadInt8" -> 1
      [] p = "ReadInt16" -> 2
      [] p = "ReadInt32" -> 4
      [] p = "ReadInt64" -> 8
      [] p = "ReadUVarInt" -> VarintEnd(rest, 1, 5)
      [] p = "ReadVarInt" -> VarintEnd(rest, 1, 10)
      [] p \in StringPrimitives ->
             IF VarintEnd(rest, 1, 5) > Len(rest)
             THEN VarintEnd(rest, 1, 5)
             ELSE VarintEnd(rest, 1, 5)
                      + (IF ReadUVarInt([B |-> rest, Off |-> 0]).v = 0 THEN 0
                         ELSE ReadUVarInt([B |-> rest, Off |-> 0]).v - 1)

\* the zero value of what a primitive returns
ZeroOf(p) ==
    CASE p = "ReadInt64" -> [i \in 1..8 |-> 0]
      [] p = "ReadVarInt" -> Zero64
      [] p \in StringPrimitives -> <<>>
      [] OTHER -> 0

\* C24: a read primitive called where fewer bytes remain than it needs
\* returns the zero value of its type and leaves the offset within the
\* slice; so does a varint read whose bytes end with the continuation bit
\* set.
C24_TruncatedReadYieldsZero ==
    (Returned("read") /\ Len(Remaining(call.arg))
                             < Needs(call.arg[1], Remaining(call.arg))) =>
        /\ ret[1] = ZeroOf(call.arg[1])
        /\ ret[2] <= Len(call.arg[2])

RECURSIVE VarintBits(_, _)
\* the bits of the n first bytes of rest, seven from each, the first byte's
\* first
VarintBits(rest, n) ==
    IF n = 0 THEN <<>> ELSE VarintBits(rest, n - 1) \o Bits7(rest[n] % 128)

\* rest starts with a varint that ends within max bytes
Terminated(rest, max) ==
    /\ VarintEnd(rest, 1, max) <= Len(rest)
    /\ rest[VarintEnd(rest, 1, max)] < 128

\* C25: for a signed varint that ends within 10 bytes ReadVarInt returns
\* (u >> 1) XOR -(u AND 1), the shift being the logical one, where u is the
\* unsigned 64-bit value the bytes encode; also when bit 63 of u is set.
C25_VarIntZigZag ==
    (Returned("read") /\ call.arg[1] = "ReadVarInt"
        /\ Terminated(Remaining(call.arg), 10)) =>
        ret[1] = ZigZagLogical(Bits64(VarintBits(Remaining(call.arg),
                     VarintEnd(Remaining(call.arg), 1, 10))))

\* what ReadInt8 gives on a reader at offset off of bytes
NextInt8(bytes, off) ==
    IF off < Len(bytes)
    THEN (IF bytes[off + 1] < 128 THEN bytes[off + 1] ELSE bytes[off + 1] - 256)
    ELSE 0

\* C26: on any input, also one whose bytes all carry the continuation bit,
\* ReadUVarInt consumes at most 5 bytes and ReadVarInt at most 10, and the
\* next read starts right after the bytes consumed.
C26_VarintReadsBounded ==
    (Returned("read") /\ call.arg[1] \in {"ReadUVarInt", "ReadVarInt"}) =>
        /\ ret[2] >= call.arg[3]
        /\ ret[2] - call.arg[3]
               <= (IF call.arg[1] = "ReadUVarInt" THEN 5 ELSE 10)
        /\ ret[2] <= Len(call.arg[2])
        /\ ret[3] = NextInt8(call.arg[2], ret[2])

\* C26 witness: ReadVarInt at offset 2 of a slice whose remaining 12 bytes
\* all carry the continuation bit stopped after 10 bytes, and the next read
\* gave the eleventh.
C26_Witness ==
    /\ Returned("read")
    /\ call.arg = <<"ReadVarInt", <<9, 9>> \o Fill(255, 12), 2>>
    /\ ret[2] = 12
    /\ ret[3] = -1

\* the records a log holds, in order
LogRecords(arg) == Flatten(arg.first \o arg.rest)

\* the number of PartitionRecords of a log that carry the UUID u
PartitionRecordCount(arg, u) ==
    Cardinality({i \in 1..Len(LogRecords(arg)) :
                    LogRecords(arg)[i].kind = "P" /\ LogRecords(arg)[i].id = u})

\* the topic of the TopicRecord rec is in the catalog
Recovered(rec) ==
    /\ rec.name \in DOMAIN Topics
    /\ Topics[rec.name].ID = UUID(rec.id)

\* C27: after the scan of the metadata log every topic recovered from a
\* TopicRecord has as partition count the number of PartitionRecords of the
\* whole log with its UUID, or 1 when there is none, wherever those records
\* stand.
C27_PartitionCountFromWholeLog ==
    Returned("loadClusterMetadata") =>
        \A i \in 1..Len(LogRecords(call.arg)) :
            (LogRecords(call.arg)[i].kind = "T"
                /\ Recovered(LogRecords(call.arg)[i])) =>
                Topics[LogRecords(call.arg)[i].name].Partitions =
                    (IF PartitionRecordCount(call.arg,
                                             LogRecords(call.arg)[i].id) > 0
                     THEN PartitionRecordCount(call.arg,
                                               LogRecords(call.arg)[i].id)
                     ELSE 1)

\* every TopicRecord of the log is in the catalog
AllRecovered(arg) ==
    \A i \in 1..Len(LogRecords(arg)) :
        LogRecords(arg)[i].kind = "T" => Recovered(LogRecords(arg)[i])

\* the batch_length at offset o of data is 0 or larger than the bytes that
\* remain after o + 12 (a 4-byte number with its top bit set is larger than
\* every log); there is nothing to read when less than 12 bytes remain
InvalidBatchLength(data, o) ==
    \/ o + 12 > Len(data)
    \/ data[o + 9] >= 128
    \/ (((data[o + 9] * 256 + data[o + 10]) * 256 + data[o + 11]) * 256
            + data[o + 12]) = 0
    \/ (((data[o + 9] * 256 + data[o + 10]) * 256 + data[o + 11]) * 256
            + data[o + 12]) > Len(data) - o - 12

\* the batch_length is invalid at each of the n offsets from o on
GarbageInvalid(data, o, n) ==
    \A k \in o..(o + n - 1) : InvalidBatchLength(data, k)

\* the batch_length is invalid at every offset of the two garbage stretches
\* of a log
OnlyInvalidInGarbage(arg) ==
    /\ GarbageInvalid(LogBytes(arg), 0, Len(arg.pre))
    /\ GarbageInvalid(LogBytes(arg),
                      Len(arg.pre) + Len(EncodeBatches(arg.first)),
                      Len(arg.mid))

\* C28: an invalid batch_length (0, or larger than what remains after
\* o + 12) moves the scan to o + 1, a valid one to o + 12 + batch_length; it
\* neither ends the scan nor drops topics found before. So a log whose
\* batch_length is invalid at every offset of its garbage stretches gives
\* all the topics of its batches, those before the garbage and those after.
C28_ResyncStep ==
    (Returned("loadClusterMetadata") /\ OnlyInvalidInGarbage(call.arg)) =>
        AllRecovered(call.arg)

\* C28 witness: 13 zero bytes, a batch with topic b, five bytes FF, a batch
\* with topic a and two partition records: both topics are in the catalog.
C28_Witness ==
    /\ Returned("loadClusterMetadata")
    /\ call.arg = [pre |-> Zeros(13), first |-> <<<<TRec(TopicB, 34)>>>>,
                   mid |-> Fill(255, 5), rest |-> <<BatchA2>>]
    /\ OnlyInvalidInGarbage(call.arg)
    /\ DOMAIN Topics = {TopicA, TopicB}
    /\ Topics[TopicA].Partitions = 2

\* C29: garbage bytes before well-formed record batches hide no topic: every
\* TopicRecord of the batches is in the catalog.
C29_LeadingGarbage ==
    (Returned("loadClusterMetadata") /\ call.arg.mid = <<>>) =>
        AllRecovered(call.arg)

\* C30: a malformed properties line (unknown field, invalid UUID, partitions
\* value that is no number or negative) leaves the catalog as it is without
\* the line: no entry for its topic name, no field of another entry changed.
C30_MalformedLineIgnored ==
    (Returned("main") /\ ret[2] = <<"log", "props">>) =>
        \A c \in LineContexts, m \in MalformedLines :
            call.arg.props = File(c[1] \o m \o c[2]) =>
                Topics = LoadFromProperties(call.arg.log,
                                            File(c[1] \o c[2]),
                                            EmptyMap).topics

-----------------------------------------------------------------------------
(* C31 .. C38: the partition store, the header parser, the metadata-log     *)
(* decoder, the catalog                                                      *)

\* the entry of StoreScript is a Produce the broker accepts
Accepted(r) == r.kind = "produce" /\ ~Refused(r.name, r.index)

\* nothing was sent on a connection other than c
Alone(c) == \A d \in Conns \ {c} : sent[d] = <<>>

\* the one partition response of the k-th response of c, a Produce response
ProduceAnswer(c, k) == DecodeProduce(out[c][k])[1].parts[1]

\* the one topic response of the k-th response of c, a Fetch response
FetchAnswer(c, k) == DecodeFetch(out[c][k])[1]

\* the requests i < j < k of c are an accepted Produce of records A, an
\* accepted Produce of records B to the same topic, both to partition 0, and
\* a Fetch of that topic, with no other Produce to the file in between
ProduceProduceFetch(c, i, j, k) ==
    /\ i < j /\ j < k /\ k <= Len(out[c])
    /\ Alone(c)
    /\ Accepted(StoreRequest(c, i)) /\ Accepted(StoreRequest(c, j))
    /\ StoreRequest(c, i).index = 0 /\ StoreRequest(c, j).index = 0
    /\ StoreRequest(c, i).name = StoreRequest(c, j).name
    /\ StoreRequest(c, k).kind = "fetch"
    /\ StoreRequest(c, k).name = StoreRequest(c, j).name
    /\ \A m \in (j + 1)..(k - 1) :
          ~(Accepted(StoreRequest(c, m)) /\ StoreRequest(c, m).index = 0
               /\ StoreRequest(c, m).name = StoreRequest(c, j).name)

\* C31: the partition store keeps only the latest write. After two
\* successful Produce requests with records A and then B to partition 0 of
\* one topic, a Fetch of the topic returns exactly B, not A followed by B,
\* and both Produce responses report base_offset 0.
C31_LatestWriteOnly ==
    \A c \in Conns : \A i \in 1..Len(out[c]) : \A j \in 1..Len(out[c]) :
        \A k \in 1..Len(out[c]) :
            ProduceProduceFetch(c, i, j, k)
            => /\ FetchAnswer(c, k).records = StoreRequest(c, j).records
               /\ FetchAnswer(c, k).records_prefix
                     = Len(StoreRequest(c, j).records) + 1
               /\ ProduceAnswer(c, i).base_offset = 0
               /\ ProduceAnswer(c, j).base_offset = 0
               /\ ProduceAnswer(c, i).error_code = 0
               /\ ProduceAnswer(c, j).error_code = 0

\* C31 witness: records aa bb and then cc were produced to partition 0 of
\* topic a, and the Fetch that followed returned cc.
C31_Witness ==
    \E c \in Conns :
        /\ ProduceProduceFetch(c, 1, 2, 3)
        /\ StoreRequest(c, 1).records = RecordsB1
        /\ StoreRequest(c, 2).records = RecordsB2
        /\ FetchAnswer(c, 3).records = RecordsB2

\* the entry is one the broker rejects without trying to write: its topic is
\* unknown, or its index is negative or >= max(partition_count, 1)
Rejected(r) ==
    /\ r.kind = "produce"
    /\ \/ r.name \notin DOMAIN Topics
       \/ r.index < 0
       \/ r.index >= (IF Topics[r.name].Partitions > 1
                      THEN Topics[r.name].Partitions ELSE 1)

\* the requests i < j < k of c are an accepted Produce to partition 0 of a
\* topic, a rejected Produce and a Fetch of the topic
ProduceRejectedFetch(c, i, j, k) ==
    /\ i < j /\ j < k /\ k <= Len(out[c])
    /\ Alone(c)
    /\ Accepted(StoreRequest(c, i)) /\ StoreRequest(c, i).index = 0
    /\ Rejected(StoreRequest(c, j))
    /\ StoreRequest(c, k).kind = "fetch"
    /\ StoreRequest(c, k).name = StoreRequest(c, i).name
    /\ \A m \in (i + 1)..(k - 1) : Rejected(StoreRequest(c, m))

\* C32: a Produce partition entry rejected with error_code 3 because the
\* topic is unknown or the partition_index is negative or >=
\* max(partition_count, 1) performs no write: the step that answers it
\* leaves every partition file as it was, and a later Fetch returns what it
\* would have returned without the request.
C32_RejectedEntryWritesNothing ==
    /\ [][\A c \in Conns :
             LET k == Len(out[c]) + 1
             IN  (Wrote(c, k) /\ Rejected(StoreRequest(c, k)))
                 => /\ files' = files
                    /\ DecodeProduce(out'[c][k])[1].parts[1].error_code = 3
                    /\ DecodeProduce(out'[c][k])[1].parts[1].base_offset = -1]_vars
    /\ [](\A c \in Conns : \A i \in 1..Len(out[c]) : \A j \in 1..Len(out[c]) :
             \A k \in 1..Len(out[c]) :
                ProduceRejectedFetch(c, i, j, k)
                => FetchAnswer(c, k).records = StoreRequest(c, i).records)

\* C32 witness: records were produced to partition 0 of topic a, a Produce
\* to an unknown topic was answered with error_code 3, and the Fetch that
\* followed returned the records; the store holds the one file.
C32_Witness ==
    \E c \in Conns :
        /\ ProduceRejectedFetch(c, 1, 2, 3)
        /\ StoreRequest(c, 2).name = TopicX
        /\ ProduceAnswer(c, 2).error_code = 3
        /\ FetchAnswer(c, 3).records = RecordsB1
        /\ DOMAIN files = {LogPath(TopicA, 0)}

\* the entry is a Produce to a known topic and a partition in range whose
\* records field is null, empty, or longer than the rest of the body
NoRecords(r) ==
    /\ Accepted(r)
    /\ r.field \in {NullField, EmptyField, OverlongField}

\* the requests i < j < k of c are an accepted Produce of records to
\* partition 0 of a topic, a Produce to it without records, and a Fetch
ProduceEmptyFetch(c, i, j, k) ==
    /\ i < j /\ j < k /\ k <= Len(out[c])
    /\ Alone(c)
    /\ Accepted(StoreRequest(c, i)) /\ StoreRequest(c, i).index = 0
    /\ StoreRequest(c, i).records # <<>>
    /\ NoRecords(StoreRequest(c, j)) /\ StoreRequest(c, j).index = 0
    /\ StoreRequest(c, j).name = StoreRequest(c, i).name
    /\ StoreRequest(c, k).kind = "fetch"
    /\ StoreRequest(c, k).name = StoreRequest(c, i).name
    /\ \A m \in (j + 1)..(k - 1) : Rejected(StoreRequest(c, m))

\* C33: a Produce partition entry whose records field is null, empty, or
\* declares more bytes than remain in the body is treated as zero-length
\* records: for a known topic and a partition in range the step that answers
\* it leaves the partition file empty and answers error_code 0, and a
\* following Fetch of the topic returns empty records even if records were
\* stored before.
C33_NoRecordsEmptiesFile ==
    /\ [][\A c \in Conns :
             LET k == Len(out[c]) + 1
             IN  (Wrote(c, k) /\ NoRecords(StoreRequest(c, k)))
                 => /\ files' = (LogPath(StoreRequest(c, k).name,
                                         StoreRequest(c, k).index) :> <<>>)
                                   @@ files
                    /\ DecodeProduce(out'[c][k])[1].parts[1].error_code = 0]_vars
    /\ [](\A c \in Conns : \A i \in 1..Len(out[c]) : \A j \in 1..Len(out[c]) :
             \A k \in 1..Len(out[c]) :
                ProduceEmptyFetch(c, i, j, k)
                => /\ FetchAnswer(c, k).records = <<>>
                   /\ FetchAnswer(c, k).records_prefix = 1
                   /\ FetchAnswer(c, k).error_code = 0)

\* C33 witness: records were produced to partition 0 of topic a, then an
\* entry whose records field declares 9 bytes where 2 remain was answered
\* with error_code 0, and the Fetch that followed returned no records.
C33_Witness ==
    \E c \in Conns :
        /\ ProduceEmptyFetch(c, 1, 2, 3)
        /\ StoreRequest(c, 2).field = OverlongField
        /\ ProduceAnswer(c, 2).error_code = 0
        /\ FetchAnswer(c, 3).records = <<>>
        /\ files[LogPath(TopicA, 0)] = <<>>

\* the requests of c before the k-th that are accepted Produce requests to
\* partition 0 of the topic name
ZeroWrites(c, k, name) ==
    {m \in 1..(k - 1) :
        /\ Accepted(StoreRequest(c, m))
        /\ StoreRequest(c, m).index = 0
        /\ StoreRequest(c, m).name = name}

\* what the last of them wrote; nothing when there is none
LastZeroWrite(c, k, name) ==
    IF ZeroWrites(c, k, name) = {} THEN <<>>
    ELSE StoreRequest(c, CHOOSE m \in ZeroWrites(c, k, name) :
                            \A n \in ZeroWrites(c, k, name) : n <= m).records

\* C35: Fetch only ever reads partition 0. The step that answers a
\* successful Produce to a partition index p >= 1 leaves the file of
\* partition 0 of every topic as it was; a Fetch returns what the last
\* successful Produce to partition 0 of the topic wrote, whatever was
\* produced to other partitions since; and every Fetch response partition
\* entry has partition_index 0 whatever partition the request names.
C35_FetchReadsPartitionZero ==
    /\ [][\A c \in Conns :
             LET k == Len(out[c]) + 1
             IN  (Wrote(c, k) /\ Accepted(StoreRequest(c, k))
                     /\ StoreRequest(c, k).index >= 1)
                 => \A t \in DOMAIN Topics :
                       /\ ReadRecords(files', t, 0) = ReadRecords(files, t, 0)
                       /\ (LogPath(t, 0) \in DOMAIN files')
                             = (LogPath(t, 0) \in DOMAIN files)]_vars
    /\ [](\A c \in Conns : \A k \in 1..Len(out[c]) :
             StoreRequest(c, k).kind = "fetch"
             => /\ FetchAnswer(c, k).partition_index = 0
                /\ FetchAnswer(c, k).partitions = 1
                /\ Len(DecodeFetch(out[c][k])) = 1
                /\ Alone(c) => FetchAnswer(c, k).records
                                  = LastZeroWrite(c, k, StoreRequest(c, k).name))

\* C35 witness: records aa bb were produced to partition 0 of topic a, then
\* cc to partition 2, and a Fetch that names partition 2 returned aa bb in
\* an entry with partition_index 0.
C35_Witness ==
    \E c \in Conns :
        /\ Alone(c) /\ Len(out[c]) = 3
        /\ StoreRequest(c, 1) = ProduceRecords(TopicA, 0, RecordsB1)
        /\ StoreRequest(c, 2) = ProduceRecords(TopicA, 2, RecordsB2)
        /\ StoreRequest(c, 3) = FetchOf(TopicA, UUID(17), 2)
        /\ ProduceAnswer(c, 2).error_code = 0
        /\ FetchAnswer(c, 3).records = RecordsB1
        /\ FetchAnswer(c, 3).partition_index = 0
        /\ files[LogPath(TopicA, 2)] = RecordsB2

\* the first request of each connection is an accepted Produce to partition
\* 0 of topic a, both were answered, no other Produce was sent, and no
\* Fetch was answered before both were
BothProduced ==
    /\ \A c \in Conns :
          /\ Len(sent[c]) >= 1 /\ Len(out[c]) >= 1
          /\ status[c] = "open"
          /\ Accepted(StoreRequest(c, 1))
          /\ StoreRequest(c, 1).name = TopicA
          /\ StoreRequest(c, 1).index = 0
          /\ \A k \in 2..Len(sent[c]) : StoreRequest(c, k).kind = "fetch"
    /\ \A c \in Conns : Len(out[c]) = 1

\* C34 (as the specification states it): concurrent Produce requests to the
\* same (topic, partition) from different connections are not serialized;
\* each is answered with error_code 0 when its write returns without error,
\* and once both have completed a Fetch returns exactly the records bytes of
\* one of the two requests, never a mixture of both payloads. The code
\* breaks it: the truncating opens and the writes of the two os.WriteFile
\* calls interleave, and the shorter payload written last leaves the tail of
\* the longer one behind it.
C34_ConcurrentProduceOneOfTwo ==
    [][\A c \in Conns :
          (BothProduced /\ Wrote(c, 2))
          => /\ \A d \in Conns : ProduceAnswer(d, 1).error_code = 0
             /\ \E d \in Conns :
                   DecodeFetch(out'[c][2])[1].records = StoreRequest(d, 1).records]_vars

\* the step on connection c read a whole frame with a payload of at least 8
\* bytes while the client was still there
ReadFrame(c) ==
    /\ pos'[c] > pos[c]
    /\ ~eof[c]
    /\ \E k \in 1..Len(Frames(c)) : Frames(c)[k].end = pos'[c]

\* C36 (as the specification states it): the header parser never rejects a
\* payload of at least 8 bytes: the header cursor ends at an offset k with
\* 8 <= k <= len(payload), the body is payload[k:], and the request is
\* dispatched and answered. The code breaks the last part: a Produce v11
\* request whose body makes the parser panic is dispatched and never
\* answered.
C36_HeaderNeverRejects ==
    /\ [](\A c \in Conns : \A k \in 1..Len(Frames(c)) :
             /\ 8 <= HeaderEnd(Frames(c)[k].payload)
             /\ HeaderEnd(Frames(c)[k].payload) <= Len(Frames(c)[k].payload))
    /\ [][\A c \in Conns :
             ReadFrame(c) => /\ Wrote(c, Len(out[c]) + 1)
                             /\ status'[c] = "open"]_vars

RECURSIVE ScanBatches(_, _)
\* the offsets at which the scan of the log finds a valid batch length, from
\* offset on
ScanBatches(data, offset) ==
    IF ScanEnds(data, Resync(data, offset, Len(data))) THEN {}
    ELSE IF BatchEnd(data, Resync(data, offset, Len(data))) > Len(data)
    THEN {Resync(data, offset, Len(data))}
    ELSE {Resync(data, offset, Len(data))}
             \cup ScanBatches(data, BatchEnd(data, Resync(data, offset, Len(data))))

\* one iteration of the batch scan at offset o moves the offset forward: to
\* o + 1 when the batch length is invalid, to o + 12 + batch_length, which
\* is above o + 12 and within the log, otherwise
ScanAdvances(data, o) ==
    IF ValidBatchLen(data, o)
    THEN /\ BatchEnd(data, o) = o + 12 + SignedBE(data, o + 8, 4)
         /\ BatchEnd(data, o) > o + 12
         /\ BatchEnd(data, o) <= Len(data)
    ELSE /\ Resync(data, o, o) = -1
         /\ Resync(data, o, o + 1) \in {-1, o + 1}

\* one iteration of the record loop with the cursor at c either exits or
\* moves the cursor forward to record_start + record_length, within the
\* records
RecordAdvances(records, c) ==
    LET rl == ReadVarInt([B |-> records, Off |-> c])
    IN  (c < Len(records) - 5 /\ ~RecordLoopBreaks(rl))
        => /\ rl.br.Off > c
           /\ RecordEnd(rl) = rl.br.Off + IntOf(rl.v)
           /\ RecordEnd(rl) > rl.br.Off
           /\ RecordEnd(rl) <= Len(records)

RecordsAdvance(records) ==
    \A c \in 0..Len(records) : RecordAdvances(records, c)

\* the records of the batch at offset o, as parseRecords receives them
BatchRecords(data, o) ==
    IF o + 61 >= BatchEnd(data, o) THEN <<>>
    ELSE SubSeq(data, o + 62, BatchEnd(data, o))

\* every iteration of the batch scan over data, and every iteration of the
\* record loop over the records of the batches it finds, moves forward
DecoderAdvances(data) ==
    /\ \A o \in 0..Len(data) : ~ScanEnds(data, o) => ScanAdvances(data, o)
    /\ \A o \in ScanBatches(data, 0) :
          RecordsAdvance(BatchRecords(data, o))

\* C37: the metadata-log decoder terminates on every file content. Each
\* iteration of the batch scan strictly increases the scan offset, by 1 on
\* an invalid batch_length and by 12 + batch_length > 12 otherwise, and each
\* iteration of the record loop within a batch either exits or moves the
\* record cursor strictly forward to record_start + record_length.
C37_DecoderTerminates ==
    call.fn = "loadClusterMetadata" => DecoderAdvances(LogBytes(call.arg))

\* C37 witness: loadClusterMetadata returned on a log of 13 zero bytes, a
\* batch with topic a and two partition records, one zero byte, and a batch
\* with topics a and b: the scan stepped over the garbage byte by byte and
\* over both batches, and the record loop over three records and two.
C37_Witness ==
    /\ Returned("loadClusterMetadata")
    /\ call.arg = [pre |-> Zeros(13), first |-> <<BatchA2>>, mid |-> Zeros(1),
                   rest |-> <<BatchAB>>]
    /\ ScanBatches(LogBytes(call.arg), 0)
          = {13, 14 + Len(EncodeBatches(<<BatchA2>>))}
    /\ DOMAIN Topics = {TopicA, TopicB}
    /\ Topics[TopicA].Partitions = 2

\* the catalog was filled by the metadata-log loader
LoadedFromLog ==
    \/ Returned("loadClusterMetadata")
    \/ Returned("main") /\ ret[2] = <<"log">>

\* the error codes of the entries of the response resp to entry t of
\* NamelessRequests: partition entries for Produce, topic entries for
\* DescribeTopicPartitions
NamelessCodes(t, resp) ==
    IF NamelessRequests[t].key = APIKeyProduce
    THEN {DecodeProduce(resp)[i].parts[j].error_code :
             i \in 1..Len(DecodeProduce(resp)),
             j \in 1..Len(DecodeProduce(resp)[1].parts)}
    ELSE {DecodeDescribe(resp)[i].error_code : i \in 1..Len(DecodeDescribe(resp))}

\* the broker has read the request of connection 1
NamelessRead == sent[1] # <<>> /\ pos[1] > 0

\* C38 (as the specification states it): after startup, whichever loader
\* filled the catalog, no catalog key is the empty string, no
\* partition_count is negative, and every entry loaded from the metadata log
\* has partition_count >= 1; so a DescribeTopicPartitions or Produce request
\* that names the empty, null or truncated topic name is always answered
\* with error_code 3. The code breaks the last part: a Produce request whose
\* body ends inside the topic name makes the parser panic.
C38_NoNamelessTopic ==
    /\ ret # "none" =>
          \A name \in DOMAIN Topics :
             /\ name # <<>>
             /\ Topics[name].Partitions >= 0
             /\ LoadedFromLog => Topics[name].Partitions >= 1
    /\ NamelessRead =>
          /\ ~crashed
          /\ Len(out[1]) = 1
          /\ NamelessCodes(sent[1][1], out[1][1]) = {3}

=============================================================================
